---- MODULE Spec2Model ----
(***************************************************************************)
(* Batch question-generation subsystem of the IGCSE study guide:           *)
(*   - OllamaQuestionGenerator._call_ollama (retry / backoff adapter),     *)
(*   - BatchQuestionGenerator (semaphore, daily budget, batch run),        *)
(*   - QuestionGenerationScheduler (single-flight tick, scheduler loop).   *)
(***************************************************************************)
EXTENDS Integers, Sequences, FiniteSets, TLC

\* ------------------------------------------------------------------------
\* Bounds of the model
\* ------------------------------------------------------------------------
MaxRetries == 3          \* GenerationConfig.max_retries ranges over 0..MaxRetries
MaxElapsed == 122        \* seconds an unanswered chat request is followed

MaxConcurrent == 2       \* max_concurrent_generations ranges over 1..MaxConcurrent
MaxDaily == 2            \* max_daily_generations ranges over 1..MaxDaily
MaxTopics == 2           \* length of the backlog returned by the needs analysis
MaxQuestions == 2        \* questions persisted for one topic
MaxDay == 1              \* calendar days 0..MaxDay
MaxTicks == 2            \* invocations of run_scheduled_generation followed

\* GenerationConfig.timeout_seconds (default value)
timeout_seconds == 120

\* the no-result sentinel (Python None) and the reply texts of the model
NoResult == "None"
Replies == {"reply_a", "reply_b"}

VARIABLES
    \* --- _call_ollama ---------------------------------------------------
    max_retries,     \* self.config.max_retries
    call_pc,         \* "ready" | "in_chat" | "backoff" | "returned" | "raised"
    attempt,         \* loop variable of `for attempt in range(max_retries)`
    chat_calls,      \* number of ollama_client.chat calls made
    chat_failures,   \* number of chat calls that raised
    elapsed,         \* seconds the chat call in flight has been waiting
    chat_response,   \* what the latest chat call produced: "pending",
                     \* "exception", or the content text of the reply
    call_events,     \* trace of Ev("attempt", i), Ev("wait", secs),
                     \* Ev("return", 1 if text else 0)
    call_result,     \* value returned to the caller ("pending" before return)
    \* --- BatchQuestionGenerator ------------------------------------------
    max_concurrent_generations,  \* batch_config.max_concurrent_generations
    max_daily_generations,       \* batch_config.max_daily_generations
    daily_generation_count,      \* self.daily_generation_count
    sem_value,                   \* free permits of self.generation_semaphore
    task,            \* the generate_for_topic tasks of the run in progress
    run,             \* locals of run_batch_generation: position, len(tasks),
                     \* index of the awaited task, the three counters
    batch_result,    \* BatchGenerationResult of the latest finished run
    run_log,         \* what the latest run did: "analyze", "dispatch"
    batch_calls,     \* number of calls of run_batch_generation
    \* --- QuestionGenerationScheduler -------------------------------------
    rotation_len,    \* len(self.config.subjects_rotation)
    is_running,      \* self.is_running
    current_subject_index,
    generation_call, \* the batch entry point the latest non-skipped tick
                     \* called, with its subject filter and max_topics
    last_run_date,   \* date of self.last_run_date, NoDate for None
    tick_start,      \* date of start_time of the tick in progress
    last_tick_result,\* status/reason returned by the latest tick
    tick_calls,      \* number of calls of run_scheduled_generation
    loop_pc,         \* run_scheduler_loop: "not_started" | "pending" |
                     \* "in_job" | "check"
    last_reset,      \* the latest reset_daily_count: who called it and
                     \* whether it cleared a non-zero count
    today,           \* the current calendar date
    manual,          \* the call of run_manual_generation: its position,
                     \* the task of its batch run and the result returned
    \* --- generate_for_topic: the quality gate ----------------------------
    gate_pc,         \* "idle" | "validating" | "saving" | "returned"
    questions,       \* what generate_quiz_questions returned: for each
                     \* question the issues the validator will find in it
    validated_questions,  \* the questions that passed, with their
                     \* quality_score attribute
    persisted,       \* the rows written by save_quiz_to_database
    gate_return,     \* the (success, question_count) returned
    \* --- generate_exam_paper and ExamPaper ------------------------------
    exam_pc,         \* "idle" | "loop" | "check" | "build" | "returned";
                     \* "construct" |
                     \* "constructed" for an ExamPaper built on its own
    total_marks,     \* the total_marks requested of generate_exam_paper
    exam_log,        \* for each attempt made, whether it was accepted
    last_attempt,    \* the latest attempt: what the model call gave, the
                     \* marks of attempt_questions, the header of `result`
    paper_args,      \* the arguments of the latest ExamPaper(...) call
    exam_paper,      \* the object that call produced, if it did not raise
    exam_return,     \* "pending" | "paper" (exam_paper is returned) | "None"
    \* --- generate_quiz_questions ----------------------------------------
    quiz_pc,         \* "idle" | "loop" | "in_call" | "sleep" | "returned"
    question_count,  \* the number of questions requested
    remaining_questions,
    all_questions,   \* the questions accumulated
    quiz_calls,      \* number of _call_ollama calls made
    quiz_events,     \* trace of Ev("call", items requested), Ev("reply",
                     \* questions accumulated from it), Ev("sleep", seconds),
                     \* Ev("return", questions returned)
    quiz_break,      \* why the loop was left: "none" | "done" |
                     \* "no_response" | "invalid" | "exception"
    quiz_exact,      \* every reply so far held exactly the items requested,
                     \* all well-formed
    quiz_return,     \* the list returned
    quiz_reply,      \* what the last model call gave
    \* --- analyze_generation_needs ---------------------------------------
    needs_pc,        \* "idle" | "entered" | "returned"
    topic_rows,      \* result.data of get_topic_question_counts: for each
                     \* row its subject_name, its total_questions, whether
                     \* get_topic_info finds the topic
    subject_filter,  \* a subject name, or "None"
    min_questions_per_topic,     \* batch_config.min_questions_per_topic
    target_questions_per_topic,  \* batch_config.target_questions_per_topic
    needs,           \* the list returned
    \* --- run_batch_generation called on its own --------------------------
    dispatch_pc,     \* "idle" | "entered" | "awaiting" | "returned"
    max_topics,      \* the argument: [given |-> FALSE] for None, else its value
    batch_needs,     \* topic ids of the list analyze_generation_needs returns
    topic_outcome,   \* for each topic what generate_for_topic ends with
    entry_count,     \* daily_generation_count when the call was entered
    dispatched,      \* topic ids of `tasks`, in the order of their creation
    completion_order, \* positions of the tasks in the order they ended
    \* --- QuestionQualityValidator._calculate_quality_score ---------------
    score_pc,        \* "idle" | "entered" | "returned"
    issues,          \* the severities of the issue list, in list order
    issue_idx,       \* number of issues the loop has gone through
    base_score,      \* the local base_score; at the return, the score
    \* --- QuestionQualityValidator.validate_* -----------------------------
    val_pc,          \* "idle" | "entered" | "returned"
    val_subject,     \* the object validated: its kind and what the checks
                     \* look at
    val_result,      \* the ValidationResult returned
    \* --- GenerationConfig and the construction of a generator -----------
    config_pc,       \* "idle" | "entered" | "prepared" | "constructed" |
                     \* "operating"
    config_source,   \* who constructs: the scheduler, with the `generation`
                     \* section of its configuration file, or a caller with
                     \* the config it passes (or None)
    generation_config,  \* the config handed to OllamaQuestionGenerator
    generator_config,   \* self.config of the generator
    \* --- OllamaQuestionGenerator._extract_json_from_response -------------
    extract_pc,      \* "idle" | "entered" | "strict" | "cleanup" |
                     \* "decode_error" | "returned" | "raised"
    response,        \* the text, one character per item
    embedded,        \* how the text was made: the prose, the object and the
                     \* style it was written in, or [kind |-> "other"]
    json_content,    \* the local json_content
    extract_result   \* [found |-> FALSE] for None, else the parsed object

callVars == <<max_retries, call_pc, attempt, chat_calls, chat_failures,
              elapsed, chat_response, call_events, call_result>>

batchVars == <<max_concurrent_generations, max_daily_generations,
               daily_generation_count, sem_value, task, run, batch_result,
               run_log, batch_calls>>

schedVars == <<rotation_len, is_running, current_subject_index,
               generation_call, last_run_date,
               tick_start, last_tick_result, tick_calls, loop_pc, last_reset,
               today, manual>>

gateVars == <<gate_pc, questions, validated_questions, persisted, gate_return>>

examVars == <<exam_pc, total_marks, exam_log, last_attempt, paper_args,
              exam_paper, exam_return>>

quizVars == <<quiz_pc, question_count, remaining_questions, all_questions,
              quiz_calls, quiz_events, quiz_break, quiz_exact, quiz_return,
              quiz_reply>>

needsVars == <<needs_pc, topic_rows, subject_filter, min_questions_per_topic,
               target_questions_per_topic, needs>>

dispatchVars == <<dispatch_pc, max_topics, batch_needs, topic_outcome,
                  entry_count, dispatched, completion_order>>

scoreVars == <<score_pc, issues, issue_idx, base_score>>

valVars == <<val_pc, val_subject, val_result>>

configVars == <<config_pc, config_source, generation_config, generator_config>>

extractVars == <<extract_pc, response, embedded, json_content, extract_result>>

genVars == <<gateVars, examVars, quizVars, needsVars, dispatchVars, scoreVars,
             valVars, configVars, extractVars>>

\* everything but the variables of one part
notGate == <<scoreVars, valVars, configVars, extractVars, callVars, batchVars, schedVars, examVars, quizVars, needsVars,
            dispatchVars>>
notExam == <<scoreVars, valVars, configVars, extractVars, callVars, batchVars, schedVars, gateVars, quizVars, needsVars,
            dispatchVars>>
notQuiz == <<scoreVars, valVars, configVars, extractVars, callVars, batchVars, schedVars, gateVars, examVars, needsVars,
            dispatchVars>>
notNeeds == <<scoreVars, valVars, configVars, extractVars, callVars, batchVars, schedVars, gateVars, examVars, quizVars,
            dispatchVars>>

vars == <<callVars, batchVars, schedVars, genVars>>

\* the quality gate not entered
GateIdle ==
    /\ gate_pc = "idle"
    /\ questions = <<>>
    /\ validated_questions = <<>>
    /\ persisted = <<>>
    /\ gate_return = [success |-> FALSE, question_count |-> -1]

\* the arguments of an ExamPaper(...) call: whether title and instructions
\* are non-empty, the duration, the declared total, the marks of the questions
PaperArgs(t, d, m, qs) ==
    [title_ok |-> t, duration_minutes |-> d, total_marks |-> m, questions |-> qs]
NoPaperArgs == PaperArgs(FALSE, 0, 0, <<>>)
\* no ExamPaper object (the constructor raised, or was not called)
NoPaper == [ok |-> FALSE, total_marks |-> 0, questions |-> <<>>]
NoAttempt == [kind |-> "none", attempt_questions |-> <<>>, title_ok |-> FALSE,
              duration |-> 0]

\* generate_exam_paper not entered
ExamIdle ==
    /\ exam_pc = "idle"
    /\ total_marks = 0
    /\ exam_log = <<>>
    /\ last_attempt = NoAttempt
    /\ paper_args = NoPaperArgs
    /\ exam_paper = NoPaper
    /\ exam_return = "pending"

\* generate_quiz_questions not entered
QuizIdle ==
    /\ quiz_pc = "idle"
    /\ question_count = 0
    /\ remaining_questions = 0
    /\ all_questions = <<>>
    /\ quiz_calls = 0
    /\ quiz_events = <<>>
    /\ quiz_break = "none"
    /\ quiz_exact = TRUE
    /\ quiz_return = <<>>
    /\ quiz_reply = [kind |-> "none", n |-> 0, bad |-> 0, defect |-> "none"]

\* analyze_generation_needs not entered
NeedsIdle ==
    /\ needs_pc = "idle"
    /\ topic_rows = <<>>
    /\ subject_filter = "None"
    /\ min_questions_per_topic = 0
    /\ target_questions_per_topic = 0
    /\ needs = <<>>

\* the absent max_topics argument
NoMaxTopics == [given |-> FALSE, value |-> 0]

\* run_batch_generation not called on its own
DispatchIdle ==
    /\ dispatch_pc = "idle"
    /\ max_topics = NoMaxTopics
    /\ batch_needs = <<>>
    /\ topic_outcome = <<>>
    /\ entry_count = 0
    /\ dispatched = <<>>
    /\ completion_order = <<>>

\* _calculate_quality_score not entered
ScoreIdle ==
    /\ score_pc = "idle"
    /\ issues = <<>>
    /\ issue_idx = 0
    /\ base_score = [neg |-> FALSE, hi |-> 0, lo |-> 0]

\* no ValidationResult yet
NoValidationResult ==
    [is_valid |-> FALSE, quality_score |-> [neg |-> FALSE, hi |-> 0, lo |-> 0],
     issues |-> <<>>]

\* no validate_* call entered
ValidateIdle ==
    /\ val_pc = "idle"
    /\ val_subject = [kind |-> "none"]
    /\ val_result = NoValidationResult

\* no generator being constructed
NoConfig == [model |-> "", temperature |-> 0, max_tokens |-> 0,
             timeout_seconds |-> 0]

ConfigIdle ==
    /\ config_pc = "idle"
    /\ config_source = [path |-> "none"]
    /\ generation_config = NoConfig
    /\ generator_config = NoConfig

\* _extract_json_from_response not entered
ExtractIdle ==
    /\ extract_pc = "idle"
    /\ response = <<>>
    /\ embedded = [kind |-> "other"]
    /\ json_content = <<>>
    /\ extract_result = [found |-> FALSE]

\* the parts of the generator that a specification does not exercise
GenIdle ==
    /\ GateIdle /\ ExamIdle /\ QuizIdle /\ NeedsIdle /\ DispatchIdle
    /\ ScoreIdle /\ ValidateIdle /\ ConfigIdle /\ ExtractIdle

Min(a, b) == IF a <= b THEN a ELSE b

Ev(k, v) == [kind |-> k, n |-> v]

\* ------------------------------------------------------------------------
\* OllamaQuestionGenerator._call_ollama
\* ------------------------------------------------------------------------
RECURSIVE Pow2(_)
Pow2(n) == IF n = 0 THEN 1 ELSE 2 * Pow2(n - 1)

\* a backoff that does not grow
BackoffSeconds_Fixed(i) == 1

\* asyncio.sleep(2 ** attempt)
BackoffSeconds(i) == Pow2(i)

\* giving up one attempt too early
MayRetry_GivesUpEarly(i) == i < max_retries - 2

\* `if attempt < self.config.max_retries - 1`
MayRetry(i) == i < max_retries - 1

\* the `for attempt in range(self.config.max_retries)` loop still has an item
LoopHasNext == attempt < max_retries

CallEntry ==
    /\ call_pc = "ready"
    /\ attempt = 0
    /\ chat_calls = 0
    /\ chat_failures = 0
    /\ elapsed = 0
    /\ chat_response = "pending"
    /\ call_events = <<>>
    /\ call_result = "pending"

\* loop head: the next attempt calls ollama_client.chat(...)
ChatBegin ==
    /\ call_pc = "ready"
    /\ LoopHasNext
    /\ call_pc' = "in_chat"
    /\ chat_calls' = chat_calls + 1
    /\ elapsed' = 0
    /\ chat_response' = "pending"
    /\ call_events' = Append(call_events, Ev("attempt", attempt))
    /\ UNCHANGED <<max_retries, attempt, chat_failures, call_result>>
    /\ UNCHANGED <<batchVars, schedVars, genVars>>

\* the client is built without a timeout and chat() is given none: while the
\* server does not answer, the blocking call just keeps waiting
ChatWait ==
    /\ call_pc = "in_chat"
    /\ elapsed < MaxElapsed
    /\ elapsed' = elapsed + 1
    /\ UNCHANGED <<max_retries, call_pc, attempt, chat_calls, chat_failures,
                   chat_response, call_events, call_result>>
    /\ UNCHANGED <<batchVars, schedVars, genVars>>

\* the reply is stored but the loop is not left
ChatReply_KeepsLooping(c) ==
    /\ call_pc = "in_chat"
    /\ chat_response' = c
    /\ call_pc' = "ready"
    /\ attempt' = attempt + 1
    /\ call_result' = c
    /\ UNCHANGED <<max_retries, chat_calls, chat_failures, elapsed, call_events>>
    /\ UNCHANGED <<batchVars, schedVars, genVars>>

\* chat returned a reply: `return response['message']['content']`
ChatReply(c) ==
    /\ call_pc = "in_chat"
    /\ chat_response' = c
    /\ call_pc' = "returned"
    /\ call_result' = c
    /\ call_events' = Append(call_events, Ev("return", 1))
    /\ UNCHANGED <<max_retries, attempt, chat_calls, chat_failures, elapsed>>
    /\ UNCHANGED <<batchVars, schedVars, genVars>>

\* chat (or the reply lookup) raised: the `except Exception` branch
ChatRaise ==
    /\ call_pc = "in_chat"
    /\ chat_failures' = chat_failures + 1
    /\ chat_response' = "exception"
    /\ IF MayRetry(attempt)
       THEN /\ call_pc' = "backoff"
            /\ call_events' =
                   Append(call_events, Ev("wait", BackoffSeconds(attempt)))
            /\ UNCHANGED call_result
       ELSE /\ call_pc' = "returned"
            /\ call_result' = NoResult
            /\ call_events' = Append(call_events, Ev("return", 0))
    /\ UNCHANGED <<max_retries, attempt, chat_calls, elapsed>>
    /\ UNCHANGED <<batchVars, schedVars, genVars>>

\* the backoff sleep is over: next iteration of the for loop
BackoffDone ==
    /\ call_pc = "backoff"
    /\ call_pc' = "ready"
    /\ attempt' = attempt + 1
    /\ UNCHANGED <<max_retries, chat_calls, chat_failures, elapsed,
                   chat_response, call_events, call_result>>
    /\ UNCHANGED <<batchVars, schedVars, genVars>>

\* the for loop is exhausted: the trailing `return None`
CallLoopExit ==
    /\ call_pc = "ready"
    /\ ~LoopHasNext
    /\ call_pc' = "returned"
    /\ call_result' = NoResult
    /\ call_events' = Append(call_events, Ev("return", 0))
    /\ UNCHANGED <<max_retries, attempt, chat_calls, chat_failures, elapsed,
                   chat_response>>
    /\ UNCHANGED <<batchVars, schedVars, genVars>>

\* ------------------------------------------------------------------------
\* BatchQuestionGenerator and QuestionGenerationScheduler
\* ------------------------------------------------------------------------
TaskIds == 1..MaxTopics
NoDate == -1
\* run_priority_generation(max_topics=20) of a tick without rotation
PriorityMaxTopics == 20

Outcomes == {"no_questions", "all_rejected", "save_failed", "exception", "success"}

\* SchedulerConfig.subjects_rotation: the head of the default list
subjects_rotation == <<"Mathematics", "Physics">>

\* a task: its position, the (success, question_count) it returns, and how
\* often it has slept in the finally block and handed its permit back
NoTask == [pc |-> "none", success |-> FALSE,
           question_count |-> 0, delays |-> 0, releases |-> 0]
\* asyncio.create_task(self.generate_for_topic(need))
CreatedTask == [NoTask EXCEPT !.pc = "pending"]
\* a task whose result run_batch_generation has taken
CollectedTask == [NoTask EXCEPT !.pc = "collected", !.delays = 1, !.releases = 1]

IdleRun == [pc |-> "idle", n_tasks |-> 0, await_idx |-> 0,
            successful_generations |-> 0, failed_generations |-> 0,
            total_questions_generated |-> 0]

NoBatchResult == [total_topics_processed |-> -1, successful_generations |-> -1,
                  failed_generations |-> -1, total_questions_generated |-> -1,
                  errors |-> "pending"]
BatchGenerationResult(n, ok, ko, q, e) ==
    [total_topics_processed |-> n, successful_generations |-> ok,
     failed_generations |-> ko, total_questions_generated |-> q, errors |-> e]
\* the result of the daily-limit early return
LimitReachedResult ==
    BatchGenerationResult(0, 0, 0, 0, "Daily generation limit reached")
\* the result of the `if not needs` early return
NoNeedsResult == BatchGenerationResult(0, 0, 0, 0, "none")

\* no tick has called the batch generator yet
NoGenerationCall == [entry |-> "none", subject_filter |-> "None", max_topics |-> 0]
\* run_subject_generation(current_subject): max_topics=None (here 0)
SubjectGeneration(s) ==
    [entry |-> "run_subject_generation", subject_filter |-> s, max_topics |-> 0]
\* run_priority_generation(max_topics=20): no subject filter
PriorityGeneration ==
    [entry |-> "run_priority_generation", subject_filter |-> "None",
     max_topics |-> PriorityMaxTopics]

NoReset == [by |-> "none", cleared |-> FALSE]

\* run_manual_generation has not been called
NoManual == [pc |-> "idle", task |-> NoTask, result |-> NoBatchResult]

\* a generator and its scheduler between two runs, `count` questions
\* having been persisted since the last reset
Resting(conc, daily, rot, count) ==
    /\ max_concurrent_generations = conc
    /\ max_daily_generations = daily
    /\ daily_generation_count = count
    /\ sem_value = conc
    /\ task = [t \in TaskIds |-> NoTask]
    /\ run = IdleRun
    /\ batch_result = NoBatchResult
    /\ run_log = {}
    /\ batch_calls = 0
    /\ rotation_len = rot
    /\ is_running = FALSE
    /\ current_subject_index = 0
    /\ generation_call = NoGenerationCall
    /\ last_run_date = NoDate
    /\ tick_start = NoDate
    /\ last_tick_result = "none"
    /\ tick_calls = 0
    /\ loop_pc = "not_started"
    /\ last_reset = NoReset
    /\ today = 0
    /\ manual = NoManual

\* BatchQuestionGenerator.__init__ and QuestionGenerationScheduler.__init__
Constructed(conc, daily, rot) == Resting(conc, daily, rot, 0)

\* tasks inside `async with self.generation_semaphore`
Holders == {t \in TaskIds : task[t].pc \in {"generating", "delay"}}

\* --- run_scheduled_generation: the conditions it tests -------------------
\* a plausible slip: the single-flight flag is not consulted
AlreadyRunning_Never == FALSE

\* `if self.is_running`
AlreadyRunning == is_running

\* a plausible slip: the flag is cleared at the end of the try block only
IsRunningOnExit_NoFinally(exit) == exit # "completed"

\* `finally: self.is_running = False`, whichever way the try block is left
IsRunningOnExit(exit) == FALSE

\* a plausible slip: the tracking update precedes the batch run
LastRunDateAfterRaise_Assigned == today

\* `self.last_run_date = start_time` follows the awaited batch run: an
\* exception that leaves the run skips it
LastRunDateAfterRaise == last_run_date

\* a plausible slip: the date of the last run is not consulted
CompletedToday_Never == FALSE

\* `if self.last_run_date and self.last_run_date.date() == start_time.date()`
CompletedToday == last_run_date # NoDate /\ last_run_date = today

\* a plausible slip: the rotation index is not advanced
NextSubjectIndex_Stuck == current_subject_index

\* the subject rotation: index advanced modulo the list length
NextSubjectIndex ==
    IF rotation_len > 0
    THEN (current_subject_index + 1) % rotation_len
    ELSE current_subject_index

\* `if current_subject: run_subject_generation(...) else:
\* run_priority_generation(max_topics=20)`, current_subject being
\* subjects_rotation[current_subject_index] or None
GenerationCall ==
    IF rotation_len > 0
    THEN SubjectGeneration(subjects_rotation[current_subject_index + 1])
    ELSE PriorityGeneration

\* --- run_batch_generation: the conditions it tests -----------------------
\* a plausible slip: `>` for `>=`
LimitReached_Strict == daily_generation_count > max_daily_generations

\* `if self.daily_generation_count >= self.batch_config.max_daily_generations`
LimitReached == daily_generation_count >= max_daily_generations

\* remaining_budget; it is positive whenever it is computed, the daily-limit
\* check having returned otherwise, so the `remaining_budget <= 0` return
\* that follows it is never taken
RemainingBudget == max_daily_generations - daily_generation_count

\* len(tasks): needs[:max_topics] cut at `len(tasks) >= remaining_budget`.
\* A tick with a rotation calls run_subject_generation (max_topics=None),
\* one without calls run_priority_generation(max_topics=20).
DispatchCount(backlog) ==
    LET sliced == IF rotation_len > 0 THEN backlog
                  ELSE Min(backlog, PriorityMaxTopics)
    IN  Min(sliced, RemainingBudget)

\* a call of run_scheduled_generation can start: by any caller before the
\* scheduler loop is started, by schedule.run_pending() inside the loop
InvokeAllowed ==
    /\ tick_calls < MaxTicks
    /\ loop_pc \in {"not_started", "pending"}

\* the loop goes on to its rollover check once the job has returned
LoopAfterJob == IF loop_pc \in {"pending", "in_job"} THEN "check" ELSE loop_pc

\* --- run_scheduled_generation --------------------------------------------
\* invoked while a run is in progress: the early return before the try
TickSkipRunning ==
    /\ InvokeAllowed
    /\ AlreadyRunning
    /\ tick_calls' = tick_calls + 1
    /\ last_tick_result' = "skipped_already_running"
    /\ loop_pc' = LoopAfterJob
    /\ UNCHANGED <<batchVars, rotation_len, is_running, current_subject_index, generation_call,
                   last_run_date, tick_start, last_reset, today, manual, callVars, genVars>>

\* a run already completed today: return inside the try, finally clears the flag
TickSkipToday ==
    /\ InvokeAllowed
    /\ ~AlreadyRunning
    /\ CompletedToday
    /\ tick_calls' = tick_calls + 1
    /\ is_running' = IsRunningOnExit("skipped")
    /\ last_tick_result' = "skipped_already_completed_today"
    /\ loop_pc' = LoopAfterJob
    /\ UNCHANGED <<batchVars, rotation_len, current_subject_index, generation_call,
                   last_run_date, tick_start, last_reset, today, manual, callVars, genVars>>

\* the batch run returns at its daily-limit check; nothing suspends, so the
\* whole tick runs to its end in one step
TickLimitReached ==
    /\ InvokeAllowed
    /\ ~AlreadyRunning
    /\ ~CompletedToday
    /\ LimitReached
    /\ tick_calls' = tick_calls + 1
    /\ current_subject_index' = NextSubjectIndex
    /\ generation_call' = GenerationCall
    /\ batch_calls' = batch_calls + 1
    /\ batch_result' = LimitReachedResult
    /\ run_log' = {}
    /\ last_run_date' = today
    /\ is_running' = IsRunningOnExit("completed")
    /\ last_tick_result' = "completed"
    /\ loop_pc' = LoopAfterJob
    /\ UNCHANGED <<max_concurrent_generations, max_daily_generations,
                   daily_generation_count, sem_value, task, run, rotation_len,
                   tick_start, last_reset, today, manual, callVars, genVars>>

\* the needs analysis returns an empty backlog: `if not needs` early return
TickNoNeeds ==
    /\ InvokeAllowed
    /\ ~AlreadyRunning
    /\ ~CompletedToday
    /\ ~LimitReached
    /\ tick_calls' = tick_calls + 1
    /\ current_subject_index' = NextSubjectIndex
    /\ generation_call' = GenerationCall
    /\ batch_calls' = batch_calls + 1
    /\ batch_result' = NoNeedsResult
    /\ run_log' = {"analyze"}
    /\ last_run_date' = today
    /\ is_running' = IsRunningOnExit("completed")
    /\ last_tick_result' = "completed"
    /\ loop_pc' = LoopAfterJob
    /\ UNCHANGED <<max_concurrent_generations, max_daily_generations,
                   daily_generation_count, sem_value, task, run, rotation_len,
                   tick_start, last_reset, today, manual, callVars, genVars>>

\* an exception escapes the batch run after its daily-limit check and before
\* it has created a task: `except Exception` returns the 'failed' summary,
\* `finally` clears the flag; last_run_date is not assigned
TickFail ==
    /\ InvokeAllowed
    /\ ~AlreadyRunning
    /\ ~CompletedToday
    /\ ~LimitReached
    /\ tick_calls' = tick_calls + 1
    /\ current_subject_index' = NextSubjectIndex
    /\ generation_call' = GenerationCall
    /\ batch_calls' = batch_calls + 1
    /\ batch_result' = NoBatchResult
    /\ run_log' = {}
    /\ last_run_date' = LastRunDateAfterRaise
    /\ is_running' = IsRunningOnExit("failed")
    /\ last_tick_result' = "failed"
    /\ loop_pc' = LoopAfterJob
    /\ UNCHANGED <<max_concurrent_generations, max_daily_generations,
                   daily_generation_count, sem_value, task, run, rotation_len,
                   tick_start, last_reset, today, manual, callVars, genVars>>

\* the needs analysis returns `backlog` topics: the tasks are created and the
\* run suspends at its first `await task`
TickDispatch(backlog) ==
    /\ InvokeAllowed
    /\ ~AlreadyRunning
    /\ ~CompletedToday
    /\ ~LimitReached
    /\ tick_calls' = tick_calls + 1
    /\ is_running' = TRUE
    /\ tick_start' = today
    /\ current_subject_index' = NextSubjectIndex
    /\ generation_call' = GenerationCall
    /\ batch_calls' = batch_calls + 1
    /\ batch_result' = NoBatchResult
    /\ run_log' = {"analyze", "dispatch"}
    /\ task' = [t \in TaskIds |->
                   IF t <= DispatchCount(backlog) THEN CreatedTask ELSE NoTask]
    /\ run' = [IdleRun EXCEPT !.pc = "awaiting",
                              !.n_tasks = DispatchCount(backlog),
                              !.await_idx = 1]
    /\ loop_pc' = IF loop_pc = "pending" THEN "in_job" ELSE loop_pc
    /\ UNCHANGED <<max_concurrent_generations, max_daily_generations,
                   daily_generation_count, sem_value, rotation_len,
                   last_run_date, last_tick_result, last_reset, today, manual, callVars, genVars>>

\* --- generate_for_topic --------------------------------------------------
\* a plausible slip: the permit count is not looked at
SemaphoreFree_Unchecked == TRUE

\* asyncio.Semaphore.acquire does not block
SemaphoreFree == sem_value > 0

\* `async with self.generation_semaphore`: the permit is taken
TaskAcquire(t) ==
    /\ task[t].pc = "pending"
    /\ SemaphoreFree
    /\ sem_value' = sem_value - 1
    /\ task' = [task EXCEPT ![t].pc = "generating"]
    /\ UNCHANGED <<max_concurrent_generations, max_daily_generations,
                   daily_generation_count, run, batch_result, run_log,
                   batch_calls, schedVars, callVars, genVars>>

\* the release is not scoped: an exception leaves the block without it
AfterBody_NoFinally(o) == IF o = "exception" THEN "done" ELSE "delay"

\* every way out of the try block passes through `finally`, which sleeps
AfterBody(o) == "delay"

\* the body of the try block ends: generation, validation and save gave
\* outcome o (n questions persisted on success); the tuple to return is fixed
\* and the finally block starts its sleep
TaskFinish(t, o, n) ==
    /\ task[t].pc = "generating"
    /\ o = "success" \/ n = 0
    /\ o = "success" => n >= 1
    /\ task' = [task EXCEPT ![t] =
                   [pc |-> AfterBody(o),
                    success |-> (o = "success"), question_count |-> n,
                    delays |-> IF AfterBody(o) = "delay" THEN 1 ELSE 0,
                    releases |-> 0]]
    /\ UNCHANGED <<max_concurrent_generations, max_daily_generations,
                   daily_generation_count, sem_value, run, batch_result,
                   run_log, batch_calls, schedVars, callVars, genVars>>

\* delay_between_generations is over: the `async with` block is left and the
\* permit handed back
TaskRelease(t) ==
    /\ task[t].pc = "delay"
    /\ sem_value' = sem_value + 1
    /\ task' = [task EXCEPT ![t].pc = "done",
                            ![t].releases = task[t].releases + 1]
    /\ UNCHANGED <<max_concurrent_generations, max_daily_generations,
                   daily_generation_count, run, batch_result, run_log,
                   batch_calls, schedVars, callVars, genVars>>

\* an exception leaves generate_for_topic before its try block is entered
\* (the semaphore refuses a waiter of another event loop): the task ends
\* holding no permit and `await task` will raise
TaskRaise(t) ==
    /\ task[t].pc = "pending"
    /\ task' = [task EXCEPT ![t].pc = "raised"]
    /\ UNCHANGED <<max_concurrent_generations, max_daily_generations,
                   daily_generation_count, sem_value, run, batch_result,
                   run_log, batch_calls, schedVars, callVars, genVars>>

\* --- run_batch_generation: `for need, task in tasks: ... await task` ------
\* a plausible slip: a failed task ends the loop over the tasks
AfterFailure_Abort(idx) == run.n_tasks + 1

\* the position of the loop after a failed task: the next task
AfterFailure(idx) == idx + 1

\* a plausible slip: the counter counts the topics, not their questions
CounterAfter_PerTopic(r) == daily_generation_count + 1

\* `self.daily_generation_count += question_count`
CounterAfter(r) == daily_generation_count + r.question_count

\* `await task` returns a tuple (pc "done") or raises (pc "raised"); the
\* raise is caught by `except Exception` and counted as a failure
Aggregate ==
    /\ run.pc = "awaiting"
    /\ run.await_idx <= run.n_tasks
    /\ task[run.await_idx].pc \in {"done", "raised"}
    /\ LET r == task[run.await_idx] IN
         IF r.pc = "done" /\ r.success
         THEN /\ run' = [run EXCEPT
                    !.await_idx = @ + 1,
                    !.successful_generations = @ + 1,
                    !.total_questions_generated = @ + r.question_count]
              /\ daily_generation_count' = CounterAfter(r)
         ELSE /\ run' = [run EXCEPT !.await_idx = AfterFailure(@),
                                    !.failed_generations = @ + 1]
              /\ UNCHANGED daily_generation_count
    /\ task' = [task EXCEPT ![run.await_idx] = CollectedTask]
    /\ UNCHANGED <<max_concurrent_generations, max_daily_generations,
                   sem_value, batch_result, run_log, batch_calls, schedVars,
                   callVars, genVars>>

\* all tasks awaited: run_batch_generation returns its result and the tick
\* finishes (last_run_date, summary, finally)
TickComplete ==
    /\ run.pc = "awaiting"
    /\ run.await_idx > run.n_tasks
    /\ batch_result' = BatchGenerationResult(run.n_tasks,
                           run.successful_generations, run.failed_generations,
                           run.total_questions_generated, "tasks")
    /\ run' = IdleRun
    /\ task' = [t \in TaskIds |-> NoTask]
    /\ last_run_date' = tick_start
    /\ tick_start' = NoDate
    /\ is_running' = IsRunningOnExit("completed")
    /\ last_tick_result' = "completed"
    /\ loop_pc' = LoopAfterJob
    /\ UNCHANGED <<max_concurrent_generations, max_daily_generations,
                   daily_generation_count, sem_value, run_log, batch_calls,
                   rotation_len, current_subject_index, generation_call, tick_calls, last_reset,
                   today, manual, callVars, genVars>>

\* --- run_scheduler_loop --------------------------------------------------
\* reset_daily_count, called by `by`
ResetDailyCount(by) ==
    /\ daily_generation_count' = 0
    /\ last_reset' = [by |-> by, cleared |-> daily_generation_count > 0]

\* the loop is entered: setup_schedule, then "Reset daily count at start"
StartLoop ==
    /\ loop_pc = "not_started"
    /\ ~is_running
    /\ ResetDailyCount("start")
    /\ loop_pc' = "pending"
    /\ UNCHANGED <<max_concurrent_generations, max_daily_generations,
                   sem_value, task, run, batch_result, run_log, batch_calls,
                   rotation_len, is_running, current_subject_index, generation_call,
                   last_run_date, tick_start, last_tick_result, tick_calls,
                   today, manual, callVars, genVars>>

\* schedule.run_pending() finds no job due
LoopNoJob ==
    /\ loop_pc = "pending"
    /\ loop_pc' = "check"
    /\ UNCHANGED <<batchVars, rotation_len, is_running, current_subject_index, generation_call,
                   last_run_date, tick_start, last_tick_result, tick_calls,
                   last_reset, today, manual, callVars, genVars>>

\* a rollover test that also fires on the day of the last run
RolloverDue_SameDay == last_run_date # NoDate /\ last_run_date <= today

\* `self.last_run_date and self.last_run_date.date() < current_time.date()`
RolloverDue == last_run_date # NoDate /\ last_run_date < today

\* the day-rollover check of the loop body, then time.sleep(60)
LoopResetCheck ==
    /\ loop_pc = "check"
    /\ IF RolloverDue
       THEN ResetDailyCount("rollover")
       ELSE UNCHANGED <<daily_generation_count, last_reset>>
    /\ loop_pc' = "pending"
    /\ UNCHANGED <<max_concurrent_generations, max_daily_generations,
                   sem_value, task, run, batch_result, run_log, batch_calls,
                   rotation_len, is_running, current_subject_index, generation_call,
                   last_run_date, tick_start, last_tick_result, tick_calls,
                   today, manual, callVars, genVars>>

\* midnight passes
NewDay ==
    /\ today < MaxDay
    /\ today' = today + 1
    /\ UNCHANGED <<batchVars, rotation_len, is_running, current_subject_index, generation_call,
                   last_run_date, tick_start, last_tick_result, tick_calls,
                   loop_pc, last_reset, manual, callVars, genVars>>

\* a scheduler after construction, with any configuration
Init ==
    /\ \E conc \in 1..MaxConcurrent, daily \in 1..MaxDaily,
          rot \in {0, Len(subjects_rotation)} : Constructed(conc, daily, rot)
    /\ max_retries = 0
    /\ CallEntry
    /\ GenIdle

Next ==
    \/ TickSkipRunning
    \/ TickSkipToday
    \/ TickLimitReached
    \/ TickNoNeeds
    \/ TickFail
    \/ \E backlog \in 1..MaxTopics : TickDispatch(backlog)
    \/ \E t \in TaskIds : TaskAcquire(t)
    \/ \E t \in TaskIds, o \in Outcomes, n \in 0..MaxQuestions : TaskFinish(t, o, n)
    \/ \E t \in TaskIds : TaskRelease(t)
    \/ \E t \in TaskIds : TaskRaise(t)
    \/ Aggregate
    \/ TickComplete
    \/ StartLoop
    \/ LoopNoJob
    \/ LoopResetCheck
    \/ NewDay

Spec == Init /\ [][Next]_vars

\* a generator whose _call_ollama is entered, with any configured max_retries
InitCall ==
    /\ max_retries \in 0..MaxRetries
    /\ CallEntry
    /\ Constructed(1, 1, 0)
    /\ GenIdle

NextCall ==
    \/ ChatBegin
    \/ ChatWait
    \/ \E c \in Replies : ChatReply(c)
    \/ ChatRaise
    \/ BackoffDone
    \/ CallLoopExit

SpecCall == InitCall /\ [][NextCall]_vars

\* ------------------------------------------------------------------------
\* Properties of _call_ollama (checked under SpecCall)
\* ------------------------------------------------------------------------
Last(seq) == seq[Len(seq)]
CountKind(seq, k) == Cardinality({p \in 1..Len(seq) : seq[p].kind = k})

\* the trace of a call whose N attempts all fail:
\* attempt, wait 1, attempt, wait 2, ..., attempt, return
FailTrace(N) ==
    LET F[i \in 0..N] ==
            IF i = 0 THEN <<>>
            ELSE F[i - 1] \o <<Ev("attempt", i - 1)>>
                          \o (IF i < N THEN <<Ev("wait", Pow2(i - 1))>> ELSE <<>>)
    IN  F[N] \o <<Ev("return", 0)>>

\* C1: with max_retries = N >= 1 and every chat call raising, _call_ollama
\* makes exactly N chat attempts (never more than N on the way), then returns
\* the no-result sentinel; no exception reaches the caller.
C1_AllFailReturnsNone ==
    /\ call_pc # "raised"
    /\ (max_retries >= 1 /\ chat_failures = chat_calls) =>
           /\ chat_calls <= max_retries
           /\ call_pc = "returned" =>
                 (chat_calls = max_retries /\ call_result = NoResult)

C1_Witness ==
    /\ max_retries = 3
    /\ call_pc = "returned"
    /\ chat_calls = 3
    /\ chat_failures = 3
    /\ call_result = NoResult

\* C8: every single attempt of the model call ends within timeout_seconds,
\* i.e. no chat call is still in flight after more than timeout_seconds.
C8_AttemptWithinTimeout ==
    call_pc = "in_chat" => elapsed <= timeout_seconds

\* C9: if the first k attempts fail (k < max_retries) and attempt k+1 gets a
\* reply, _call_ollama has made exactly k+1 chat calls, has returned the
\* content text of that reply, and the trace ends with that return (no
\* further attempt follows it).
C9_ReplyEndsCall ==
    /\ chat_response \in Replies =>
           /\ call_pc = "returned"
           /\ call_result = chat_response
           /\ chat_failures = attempt
           /\ attempt < max_retries
           /\ chat_calls = chat_failures + 1
           /\ CountKind(call_events, "attempt") = chat_calls
           /\ Last(call_events) = Ev("return", 1)
    /\ call_result \in Replies => chat_response = call_result

C9_Witness ==
    /\ call_pc = "returned"
    /\ chat_failures = 2
    /\ chat_calls = 3
    /\ call_result = "reply_b"

\* C10: a failed attempt i that is not the last one is followed by a wait of
\* 2^i seconds and then by attempt i+1; every attempt after the first is
\* preceded by such a wait; the last failed attempt is followed by the return
\* without a wait: an always-failing call has the trace
\* attempt, wait 1, attempt, wait 2, ..., attempt, return.
C10_BackoffSchedule ==
    /\ \A p \in 1..Len(call_events) :
          /\ call_events[p].kind = "wait" =>
                /\ p > 1
                /\ call_events[p - 1].kind = "attempt"
                /\ call_events[p - 1].n < max_retries - 1
                /\ call_events[p].n = Pow2(call_events[p - 1].n)
                /\ p < Len(call_events) =>
                      call_events[p + 1] = Ev("attempt", call_events[p - 1].n + 1)
          /\ (call_events[p].kind = "attempt" /\ call_events[p].n > 0) =>
                (p > 1 /\ call_events[p - 1].kind = "wait")
          /\ (call_events[p].kind = "attempt" /\ call_events[p].n = 0) => p = 1
    /\ (call_pc = "returned" /\ max_retries >= 1 /\ chat_failures = chat_calls) =>
           call_events = FailTrace(max_retries)

C10_Witness ==
    /\ max_retries = 3
    /\ call_pc = "returned"
    /\ call_events = <<Ev("attempt", 0), Ev("wait", 1), Ev("attempt", 1),
                       Ev("wait", 2), Ev("attempt", 2), Ev("return", 0)>>

\* ------------------------------------------------------------------------
\* Properties of the batch generator and the scheduler (checked under Spec)
\* ------------------------------------------------------------------------

\* C2: between two resets the daily counter never exceeds the daily budget:
\* daily_generation_count <= max_daily_generations in every reachable state.
C2_WithinDailyBudget ==
    daily_generation_count <= max_daily_generations

\* C3: a call of run_batch_generation that starts with the daily budget
\* used up returns at once the all-zero result carrying the 'Daily generation
\* limit reached' error; it runs no needs analysis, creates no task and
\* leaves the counter (and the semaphore) as they were.
C3_LimitFailFast ==
    [][(batch_calls' = batch_calls + 1
          /\ daily_generation_count >= max_daily_generations)
       => /\ batch_result' = LimitReachedResult
          /\ run_log' = {}
          /\ UNCHANGED <<run, task, daily_generation_count, sem_value>>]_vars

C3_Witness ==
    /\ batch_calls >= 2
    /\ batch_result = LimitReachedResult
    /\ run_log = {}
    /\ daily_generation_count >= max_daily_generations

\* C4: at every moment the number of generate_for_topic tasks inside the
\* semaphore block (generating, validating, persisting or in the post-task
\* delay) is at most max_concurrent_generations.
C4_BoundedConcurrency ==
    Cardinality(Holders) <= max_concurrent_generations

C4_Witness ==
    /\ Cardinality(Holders) = max_concurrent_generations
    /\ \E t \in TaskIds : task[t].pc = "pending"

\* C5: permits are conserved; a task that took a permit hands it back exactly
\* once, after the delay of the finally block, whatever its outcome; when no
\* batch run is in progress all max_concurrent_generations permits are free.
C5_ScopedRelease ==
    /\ sem_value + Cardinality(Holders) = max_concurrent_generations
    /\ \A t \in TaskIds :
          /\ task[t].pc \in {"none", "pending", "generating"} =>
                (task[t].delays = 0 /\ task[t].releases = 0)
          /\ task[t].pc = "delay" =>
                (task[t].delays = 1 /\ task[t].releases = 0)
          /\ task[t].pc \in {"done", "collected"} =>
                (task[t].delays = 1 /\ task[t].releases = 1)
    /\ run.pc = "idle" => sem_value = max_concurrent_generations

C5_Witness ==
    /\ \E t \in TaskIds : task[t].pc = "done" /\ ~task[t].success
    /\ \E t \in TaskIds : task[t].pc = "done" /\ task[t].success
    /\ sem_value = max_concurrent_generations

\* C6: a call of run_scheduled_generation made while is_running is true
\* returns 'skipped' / 'already_running'; it starts no batch run and changes
\* neither current_subject_index, last_run_date, is_running nor any state of
\* the run in progress.
C6_SingleFlight ==
    [][(tick_calls' = tick_calls + 1 /\ is_running)
       => /\ last_tick_result' = "skipped_already_running"
          /\ UNCHANGED <<is_running, current_subject_index, last_run_date,
                         tick_start, batchVars>>]_vars

C6_Witness ==
    /\ last_tick_result = "skipped_already_running"
    /\ is_running
    /\ run.pc = "awaiting"
    /\ \E t \in TaskIds : task[t].pc = "generating"

\* the counter grows by the number of questions persisted for the topic whose
\* successful task is being collected
CountedPersisted ==
    /\ run.pc = "awaiting"
    /\ run.await_idx <= run.n_tasks
    /\ task[run.await_idx].pc = "done"
    /\ task[run.await_idx].success
    /\ task[run.await_idx].question_count >= 1
    /\ daily_generation_count' =
           daily_generation_count + task[run.await_idx].question_count

\* the counter is cleared by the loop's day-rollover check, the stored
\* last_run_date being earlier than today, while no batch run is in progress
ClearedByRollover ==
    /\ daily_generation_count' = 0
    /\ loop_pc = "check"
    /\ last_run_date # NoDate
    /\ last_run_date < today
    /\ run.pc = "idle"
    /\ ~is_running

\* the counter is cleared when run_scheduler_loop starts
ClearedAtLoopStart ==
    /\ daily_generation_count' = 0
    /\ loop_pc = "not_started"
    /\ loop_pc' = "pending"
    /\ run.pc = "idle"
    /\ ~is_running

C11_FailureIsolated ==
    /\ [](/\ run.pc = "awaiting" =>
                run.successful_generations + run.failed_generations
                    = run.await_idx - 1
          /\ batch_result.errors = "tasks" =>
                batch_result.successful_generations
                  + batch_result.failed_generations
                    = batch_result.total_topics_processed)
    /\ [][(run.pc = "awaiting" /\ run'.pc = "awaiting" /\ run' # run)
          => LET r == task[run.await_idx] IN
             /\ run.await_idx <= run.n_tasks
             /\ run'.await_idx = run.await_idx + 1
             /\ run'.n_tasks = run.n_tasks
             /\ IF r.pc = "done" /\ r.success
                THEN /\ run'.successful_generations =
                            run.successful_generations + 1
                     /\ run'.failed_generations = run.failed_generations
                     /\ run'.total_questions_generated =
                            run.total_questions_generated + r.question_count
                     /\ daily_generation_count' =
                            daily_generation_count + r.question_count
                ELSE /\ r.pc \in {"done", "raised"}
                     /\ run'.failed_generations = run.failed_generations + 1
                     /\ run'.successful_generations =
                            run.successful_generations
                     /\ run'.total_questions_generated =
                            run.total_questions_generated]_vars

\* the first task has failed (returned failure or raised) and been counted;
\* the second one went on to persist its questions
C11_Witness ==
    /\ run.pc = "awaiting"
    /\ run.n_tasks >= 2
    /\ run.await_idx = 2
    /\ run.failed_generations = 1
    /\ task[2].pc = "done"
    /\ task[2].success
    /\ task[2].question_count >= 1

\* ------------------------------------------------------------------------
\* QuestionQualityValidator._calculate_quality_score
\* Python floats are IEEE 754 doubles. A double between -2 and 2 is held
\* as a sign and a magnitude counted in units of 2^-57, the magnitude in two
\* limbs: magnitude = hi * LimbBase + lo, 0 <= lo < LimbBase. The literals
\* 1.0, 0.3, 0.2, 0.1 and 0.05 are the doubles nearest to them; a
\* subtraction rounds its exact result to 53 significant bits, ties to even.
\* ------------------------------------------------------------------------
MaxIssues == 4           \* length of the issue list

\* 2^27
LimbBase == 134217728

Float(neg, hi, lo) == [neg |-> neg, hi |-> hi, lo |-> lo]

\* the literals of the function
FloatZero == Float(FALSE, 0, 0)
FloatOne == Float(FALSE, 1073741824, 0)
Penalty(severity) ==
    CASE severity = "critical" -> [hi |-> 322122547, lo |-> 26843544]   \* 0.3
      [] severity = "error"    -> [hi |-> 214748364, lo |-> 107374184]  \* 0.2
      [] severity = "warning"  -> [hi |-> 107374182, lo |-> 53687092]   \* 0.1
      [] severity = "info"     -> [hi |-> 53687091, lo |-> 26843546]    \* 0.05

Severities == {"critical", "error", "warning", "info"}

MagLess(a, b) == a.hi < b.hi \/ (a.hi = b.hi /\ a.lo < b.lo)
MagAdd(a, b) ==
    [hi |-> a.hi + b.hi + ((a.lo + b.lo) \div LimbBase),
     lo |-> (a.lo + b.lo) % LimbBase]
\* a - b for a >= b
MagSub(a, b) ==
    IF a.lo >= b.lo THEN [hi |-> a.hi - b.hi, lo |-> a.lo - b.lo]
    ELSE [hi |-> a.hi - b.hi - 1, lo |-> a.lo - b.lo + LimbBase]

\* the spacing of the doubles around a magnitude, in units: 1 below 2^-4,
\* doubling with every binade above
RECURSIVE Ulp(_)
Ulp(hi) == IF hi < 67108864 THEN 1 ELSE 2 * Ulp(hi \div 2)

\* round to nearest, ties to even
RoundMag(m) ==
    LET u    == Ulp(m.hi)
        rem  == m.lo % u
        down == m.lo - rem
        up   == 2 * rem > u \/ (2 * rem = u /\ (down \div u) % 2 = 1)
        lo2  == IF up THEN down + u ELSE down
    IN  [hi |-> m.hi + (lo2 \div LimbBase), lo |-> lo2 % LimbBase]

\* x - c for a positive literal c
FloatSub(x, c) ==
    LET xm == [hi |-> x.hi, lo |-> x.lo] IN
    IF x.neg
    THEN LET r == RoundMag(MagAdd(xm, c)) IN Float(TRUE, r.hi, r.lo)
    ELSE IF MagLess(xm, c)
         THEN LET r == RoundMag(MagSub(c, xm)) IN Float(TRUE, r.hi, r.lo)
         ELSE LET r == RoundMag(MagSub(xm, c)) IN Float(FALSE, r.hi, r.lo)

\* x >= y
FloatAtLeast(x, y) ==
    IF x.neg /\ y.neg THEN ~MagLess(y, x)
    ELSE IF x.neg THEN x.hi = 0 /\ x.lo = 0 /\ y.hi = 0 /\ y.lo = 0
    ELSE IF y.neg THEN TRUE
    ELSE ~MagLess(x, y)

\* max(0.0, min(1.0, base_score))
Clamp(x) ==
    IF ~FloatAtLeast(x, FloatZero) THEN FloatZero
    ELSE IF FloatAtLeast(x, FloatOne) THEN FloatOne
    ELSE x

\* the double a decimal literal of n hundredths denotes (n a multiple of 5)
Hundredths(n) ==
    CASE n = 0   -> Float(FALSE, 0, 0)
      [] n = 5   -> Float(FALSE, 53687091, 26843546)
      [] n = 10  -> Float(FALSE, 107374182, 53687092)
      [] n = 15  -> Float(FALSE, 161061273, 80530636)
      [] n = 20  -> Float(FALSE, 214748364, 107374184)
      [] n = 25  -> Float(FALSE, 268435456, 0)
      [] n = 30  -> Float(FALSE, 322122547, 26843544)
      [] n = 35  -> Float(FALSE, 375809638, 53687088)
      [] n = 40  -> Float(FALSE, 429496729, 80530640)
      [] n = 45  -> Float(FALSE, 483183820, 107374184)
      [] n = 50  -> Float(FALSE, 536870912, 0)
      [] n = 55  -> Float(FALSE, 590558003, 26843552)
      [] n = 60  -> Float(FALSE, 644245094, 53687088)
      [] n = 65  -> Float(FALSE, 697932185, 80530640)
      [] n = 70  -> Float(FALSE, 751619276, 107374176)
      [] n = 75  -> Float(FALSE, 805306368, 0)
      [] n = 80  -> Float(FALSE, 858993459, 26843552)
      [] n = 85  -> Float(FALSE, 912680550, 53687088)
      [] n = 90  -> Float(FALSE, 966367641, 80530640)
      [] n = 95  -> Float(FALSE, 1020054732, 107374176)
      [] n = 100 -> Float(FALSE, 1073741824, 0)

\* base_score after the loop has gone through the first k issues of a list
RECURSIVE BaseScoreAfter(_, _)
BaseScoreAfter(list, k) ==
    IF k = 0 THEN FloatOne
    ELSE FloatSub(BaseScoreAfter(list, k - 1), Penalty(list[k]))

\* the value the function returns for a list
QualityScore(list) == Clamp(BaseScoreAfter(list, Len(list)))

\* _calculate_quality_score(issues) is entered: base_score = 1.0
ScoreEntry ==
    /\ score_pc = "entered"
    /\ issues \in UNION {[1..k -> Severities] : k \in 0..MaxIssues}
    /\ issue_idx = 0
    /\ base_score = FloatOne

\* one turn of `for issue in issues`: the deduction for its severity
ScoreDeduct ==
    /\ score_pc = "entered"
    /\ issue_idx < Len(issues)
    /\ base_score' = FloatSub(base_score, Penalty(issues[issue_idx + 1]))
    /\ issue_idx' = issue_idx + 1
    /\ UNCHANGED <<score_pc, issues, callVars, batchVars, schedVars,
                   gateVars, examVars, quizVars, needsVars, dispatchVars, valVars,
                   configVars, extractVars>>

\* `return max(0.0, min(1.0, base_score))`
ScoreReturn ==
    /\ score_pc = "entered"
    /\ issue_idx = Len(issues)
    /\ base_score' = Clamp(base_score)
    /\ score_pc' = "returned"
    /\ UNCHANGED <<issues, issue_idx, callVars, batchVars, schedVars,
                   gateVars, examVars, quizVars, needsVars, dispatchVars, valVars,
                   configVars, extractVars>>

InitScore ==
    /\ ScoreEntry
    /\ ValidateIdle
    /\ ConfigIdle
    /\ ExtractIdle
    /\ GateIdle
    /\ ExamIdle
    /\ QuizIdle
    /\ NeedsIdle
    /\ DispatchIdle
    /\ max_retries = 0
    /\ CallEntry
    /\ Constructed(1, 1, 0)

NextScore == ScoreDeduct \/ ScoreReturn

SpecScore == InitScore /\ [][NextScore]_vars

\* ------------------------------------------------------------------------
\* BatchQuestionGenerator.generate_for_topic: validation and the quality gate
\* ------------------------------------------------------------------------
MaxGateQuestions == 2    \* questions returned by generate_quiz_questions
MaxWarnings == 3         \* WARNING issues found before the academic check

\* BatchGenerationConfig.quality_threshold (default 0.7)
quality_threshold == Hundredths(70)

\* the issues validate_quiz_question collects for a question, by severity;
\* `capital` is the capitalization WARNING, which comes after the INFO
IssueProfiles == [critical : 0..1, error : 0..1,
                  warning : 0..MaxWarnings, info : 0..1, capital : BOOLEAN]

Max(a, b) == IF a >= b THEN a ELSE b

Repeat(x, n) == [k \in 1..n |-> x]

\* the issue list of a profile, in the order the checks append to it
IssueList(p) ==
    Repeat("critical", p.critical) \o Repeat("error", p.error)
       \o Repeat("warning", p.warning) \o Repeat("info", p.info)
       \o Repeat("warning", IF p.capital THEN 1 ELSE 0)

\* QuestionQualityValidator._calculate_quality_score
CalculateQualityScore(p) == QualityScore(IssueList(p))

\* is_valid: no CRITICAL and no ERROR issue
IsValid(p) == p.critical = 0 /\ p.error = 0

\* a plausible slip: the score is not compared with the threshold
PassesGate_ValidOnly(p) == IsValid(p)

\* `validation_result.is_valid and quality_score >= quality_threshold`
PassesGate(p) ==
    IsValid(p) /\ FloatAtLeast(CalculateQualityScore(p), quality_threshold)

\* `for i, question in enumerate(questions)`: the questions that pass, each
\* with quality_score set to its validation score
RECURSIVE ValidateFrom(_, _)
ValidateFrom(qs, k) ==
    IF k > Len(qs) THEN <<>>
    ELSE (IF PassesGate(qs[k])
          THEN <<[idx |-> k, quality_score |-> CalculateQualityScore(qs[k])]>>
          ELSE <<>>) \o ValidateFrom(qs, k + 1)

SeqsUpTo(S, n) == UNION {[1..k -> S] : k \in 0..n}

GateReturn(ok, n) == [success |-> ok, question_count |-> n]

\* generate_quiz_questions has returned `questions`
GateEntry ==
    /\ gate_pc = "entered"
    /\ questions \in SeqsUpTo(IssueProfiles, MaxGateQuestions)
    /\ validated_questions = <<>>
    /\ persisted = <<>>
    /\ gate_return = GateReturn(FALSE, -1)

\* `if not questions: return False, 0, [...]`
GateNoQuestions ==
    /\ gate_pc = "entered"
    /\ questions = <<>>
    /\ gate_pc' = "returned"
    /\ gate_return' = GateReturn(FALSE, 0)
    /\ UNCHANGED <<questions, validated_questions, persisted,
                   notGate>>

\* the validation loop
GateValidate ==
    /\ gate_pc = "entered"
    /\ questions # <<>>
    /\ validated_questions' = ValidateFrom(questions, 1)
    /\ gate_pc' = "validated"
    /\ UNCHANGED <<questions, persisted, gate_return,
                   notGate>>

\* `if not validated_questions: return False, 0, ...`
GateNoneValid ==
    /\ gate_pc = "validated"
    /\ validated_questions = <<>>
    /\ gate_pc' = "returned"
    /\ gate_return' = GateReturn(FALSE, 0)
    /\ UNCHANGED <<questions, validated_questions, persisted,
                   notGate>>

\* save_quiz_to_database(validated_questions) returns a quiz id
GateSaved ==
    /\ gate_pc = "validated"
    /\ validated_questions # <<>>
    /\ persisted' = validated_questions
    /\ gate_pc' = "returned"
    /\ gate_return' = GateReturn(TRUE, Len(validated_questions))
    /\ UNCHANGED <<questions, validated_questions,
                   notGate>>

\* save_quiz_to_database returns None: no question row was written
GateSaveFailed ==
    /\ gate_pc = "validated"
    /\ validated_questions # <<>>
    /\ gate_pc' = "returned"
    /\ gate_return' = GateReturn(FALSE, 0)
    /\ UNCHANGED <<questions, validated_questions, persisted,
                   notGate>>

InitGate ==
    /\ GateEntry
    /\ ValidateIdle
    /\ ConfigIdle
    /\ ExtractIdle
    /\ ScoreIdle
    /\ DispatchIdle
    /\ NeedsIdle
    /\ ExamIdle
    /\ QuizIdle
    /\ max_retries = 0
    /\ CallEntry
    /\ Constructed(1, 1, 0)

NextGate ==
    \/ GateNoQuestions
    \/ GateValidate
    \/ GateNoneValid
    \/ GateSaved
    \/ GateSaveFailed

SpecGate == InitGate /\ [][NextGate]_vars

\* C12: a question reaches save_quiz_to_database (and the database) only if
\* its validation found it valid with a score of at least quality_threshold,
\* and it carries that score as quality_score; a topic none of whose
\* questions passes is reported as failed with nothing persisted.
C12_QualityGate ==
    /\ \A k \in 1..Len(validated_questions) :
          LET r == validated_questions[k] IN
          /\ IsValid(questions[r.idx])
          /\ FloatAtLeast(CalculateQualityScore(questions[r.idx]),
                          quality_threshold)
          /\ r.quality_score = CalculateQualityScore(questions[r.idx])
    /\ \A k \in 1..Len(persisted) :
          LET r == persisted[k] IN
          /\ IsValid(questions[r.idx])
          /\ FloatAtLeast(CalculateQualityScore(questions[r.idx]),
                          quality_threshold)
          /\ r.quality_score = CalculateQualityScore(questions[r.idx])
    /\ (gate_pc = "returned"
          /\ \A k \in 1..Len(questions) :
                ~(IsValid(questions[k])
                  /\ FloatAtLeast(CalculateQualityScore(questions[k]),
                                  quality_threshold)))
       => (gate_return = GateReturn(FALSE, 0) /\ persisted = <<>>)

\* of two generated questions the one valid with three warnings (its score
\* the double next above 0.7) was persisted, the one valid with a lower
\* score was not
C12_Witness ==
    /\ gate_pc = "returned"
    /\ Len(questions) = 2
    /\ \E k \in 1..2 :
          /\ IsValid(questions[k])
          /\ ~FloatAtLeast(CalculateQualityScore(questions[k]), quality_threshold)
    /\ Len(persisted) = 1
    /\ persisted[1].quality_score = Float(FALSE, 751619276, 107374192)
    /\ gate_return = GateReturn(TRUE, 1)

\* C13: with a rotation list of length L > 0 the n-th non-skipped tick
\* (n = 0, 1, ...) focuses on rotation[n mod L], current_subject_index being
\* the number of non-skipped ticks modulo L and so always within 0..L-1;
\* with an empty list every non-skipped tick runs the priority sweep with no
\* subject filter.
C13_RoundRobin ==
    IF rotation_len > 0
    THEN /\ current_subject_index \in 0..(rotation_len - 1)
         /\ current_subject_index = batch_calls % rotation_len
         /\ batch_calls > 0 =>
               generation_call = SubjectGeneration(
                   subjects_rotation[((batch_calls - 1) % rotation_len) + 1])
    ELSE batch_calls > 0 => generation_call = PriorityGeneration

\* two non-skipped ticks on a rotation of two subjects: the second one
\* focused on the last subject and the index is back at the first
C13_Witness ==
    /\ rotation_len = Len(subjects_rotation)
    /\ batch_calls = rotation_len
    /\ current_subject_index = 0
    /\ generation_call = SubjectGeneration(subjects_rotation[rotation_len])

\* ------------------------------------------------------------------------
\* OllamaQuestionGenerator.generate_exam_paper and ExamPaper.__post_init__
\* ------------------------------------------------------------------------
MaxMarks == 4            \* marks of a question in a reply: 0..MaxMarks, or 21
MaxExamItems == 2        \* entries of the 'questions' list of a reply
MaxTotalMarks == 6       \* total_marks requested: 1..MaxTotalMarks

\* `max_attempts = 3`
max_attempts == 3
\* ExamQuestion.__post_init__: `if not 1 <= self.marks <= 20`
MarksLimit == 20

RECURSIVE SumMarks(_)
SumMarks(qs) == IF qs = <<>> THEN 0 ELSE Head(qs) + SumMarks(Tail(qs))

Abs(x) == IF x >= 0 THEN x ELSE -x

\* --- ExamPaper -----------------------------------------------------------
\* a plausible slip: the declared total is not compared with the sum
MarksMatch_Unchecked(a) == TRUE

\* `calculated_marks != self.total_marks` does not raise
MarksMatch(a) == SumMarks(a.questions) = a.total_marks

\* ExamPaper(...): __post_init__ raises ValueError (no object) or the object
\* exists with the fields it was given
ExamPaperNew(a) ==
    IF /\ a.title_ok
       /\ a.questions # <<>>
       /\ a.duration_minutes >= 10
       /\ a.total_marks >= 1
       /\ MarksMatch(a)
    THEN [ok |-> TRUE, total_marks |-> a.total_marks, questions |-> a.questions]
    ELSE NoPaper

\* --- one attempt of generate_exam_paper ----------------------------------
\* an entry of result['questions']: whether the three required keys are there
\* and the texts long enough, and its marks
ExamItems == [fields_ok : BOOLEAN, marks : (0..MaxMarks) \cup {MarksLimit + 1}]

\* what one model-call round gives: no response, a response without JSON, or a
\* parsed object: its 'questions', whether its title and instructions are
\* usable (absent or non-empty), its duration_minutes (-1: absent)
ExamReplies ==
    [kind : {"no_response", "unparsable"}, items : {<<>>},
     title_ok : {FALSE}, duration : {0}]
    \cup [kind : {"parsed"}, items : SeqsUpTo(ExamItems, MaxExamItems),
          title_ok : BOOLEAN, duration : {-1, 5}]

\* ExamQuestion(...) does not raise for the entry
Constructible(it) == it.fields_ok /\ 1 <= it.marks /\ it.marks <= MarksLimit

\* attempt_questions, as the marks of the questions constructed
RECURSIVE AttemptQuestions(_)
AttemptQuestions(items) ==
    IF items = <<>> THEN <<>>
    ELSE (IF Constructible(Head(items)) THEN <<Head(items).marks>> ELSE <<>>)
         \o AttemptQuestions(Tail(items))

\* a plausible slip: only an exact total is accepted
WithinTolerance_Exact(check, target) == check = target

\* `abs(total_marks_check - total_marks) <= total_marks * 0.2`
WithinTolerance(check, target) == 5 * Abs(check - target) <= target

\* `if attempt_questions and abs(...) <= total_marks * 0.2`
Accepted(att) ==
    /\ att.kind = "parsed"
    /\ att.attempt_questions # <<>>
    /\ WithinTolerance(SumMarks(att.attempt_questions), total_marks)

\* a plausible slip: the paper declares the requested target
ActualTotalMarks_Target(qs) == total_marks

\* `actual_total_marks = sum(q.marks for q in questions)`
ActualTotalMarks(qs) == SumMarks(qs)

\* `result.get('duration_minutes', 60 if actual_total_marks <= 20 else 90)`
DurationMinutes(att) ==
    IF att.duration = -1
    THEN (IF ActualTotalMarks(att.attempt_questions) <= 20 THEN 60 ELSE 90)
    ELSE att.duration

\* generate_exam_paper(topic_info, total_marks) is entered
ExamEntry ==
    /\ exam_pc = "loop"
    /\ total_marks \in 1..MaxTotalMarks
    /\ exam_log = <<>>
    /\ last_attempt = NoAttempt
    /\ paper_args = NoPaperArgs
    /\ exam_paper = NoPaper
    /\ exam_return = "pending"

\* one pass of `for attempt in range(max_attempts)`, first half: the model
\* call gives reply r, which is parsed and turned into attempt_questions
ExamRound(r) ==
    /\ exam_pc = "loop"
    /\ Len(exam_log) < max_attempts
    /\ last_attempt' = [kind |-> r.kind,
                        attempt_questions |-> AttemptQuestions(r.items),
                        title_ok |-> r.title_ok, duration |-> r.duration]
    /\ exam_pc' = "check"
    /\ UNCHANGED <<total_marks, exam_log, paper_args, exam_paper, exam_return,
                   notExam>>

\* second half: an accepted attempt breaks out of the loop; the locals of a
\* rejected one are not read again and are dropped
ExamCheck ==
    /\ exam_pc = "check"
    /\ exam_log' = Append(exam_log, Accepted(last_attempt))
    /\ IF Accepted(last_attempt)
       THEN exam_pc' = "build" /\ UNCHANGED last_attempt
       ELSE exam_pc' = "loop" /\ last_attempt' = NoAttempt
    /\ UNCHANGED <<total_marks, paper_args, exam_paper, exam_return, notExam>>

\* the model call gives an object whose 'questions' is not a list: enumerate
\* raises, the outer `except Exception` returns None
ExamAbort ==
    /\ exam_pc = "loop"
    /\ Len(exam_log) < max_attempts
    /\ exam_log' = Append(exam_log, FALSE)
    /\ exam_pc' = "returned"
    /\ exam_return' = "None"
    /\ UNCHANGED <<total_marks, last_attempt, paper_args, exam_paper, notExam>>

\* the loop ends without a break: `if not questions: return None`
ExamExhausted ==
    /\ exam_pc = "loop"
    /\ Len(exam_log) >= max_attempts
    /\ exam_pc' = "returned"
    /\ exam_return' = "None"
    /\ UNCHANGED <<total_marks, exam_log, last_attempt, paper_args, exam_paper,
                   notExam>>

\* the ExamPaper is constructed from the accepted attempt and returned; a
\* ValueError of the constructor is caught by the outer except: return None
ExamBuild ==
    /\ exam_pc = "build"
    /\ LET qs == last_attempt.attempt_questions
           a  == PaperArgs(last_attempt.title_ok, DurationMinutes(last_attempt),
                           ActualTotalMarks(qs), qs)
       IN  /\ paper_args' = a
           /\ exam_paper' = ExamPaperNew(a)
           /\ exam_return' = IF ExamPaperNew(a).ok THEN "paper" ELSE "None"
    /\ exam_pc' = "returned"
    /\ UNCHANGED <<total_marks, exam_log, last_attempt, notExam>>

InitExam ==
    /\ ExamEntry
    /\ ValidateIdle
    /\ ConfigIdle
    /\ ExtractIdle
    /\ ScoreIdle
    /\ DispatchIdle
    /\ NeedsIdle
    /\ GateIdle
    /\ QuizIdle
    /\ max_retries = 0
    /\ CallEntry
    /\ Constructed(1, 1, 0)

NextExam ==
    \/ \E r \in ExamReplies : ExamRound(r)
    \/ ExamCheck
    \/ ExamAbort
    \/ ExamExhausted
    \/ ExamBuild

SpecExam == InitExam /\ [][NextExam]_vars

\* --- ExamPaper constructed on its own ------------------------------------
\* ExamPaper(...) is about to be called with any arguments
PaperEntry ==
    /\ exam_pc = "construct"
    /\ \E t \in BOOLEAN, d \in {5, 60}, m \in 0..MaxTotalMarks,
          qs \in SeqsUpTo(1..MaxMarks, MaxExamItems) :
          paper_args = PaperArgs(t, d, m, qs)
    /\ total_marks = 0
    /\ exam_log = <<>>
    /\ last_attempt = NoAttempt
    /\ exam_paper = NoPaper
    /\ exam_return = "pending"

PaperConstruct ==
    /\ exam_pc = "construct"
    /\ exam_paper' = ExamPaperNew(paper_args)
    /\ exam_pc' = "constructed"
    /\ UNCHANGED <<total_marks, exam_log, last_attempt, paper_args, exam_return,
                   notExam>>

InitPaper ==
    /\ PaperEntry
    /\ ValidateIdle
    /\ ConfigIdle
    /\ ExtractIdle
    /\ ScoreIdle
    /\ DispatchIdle
    /\ NeedsIdle
    /\ GateIdle
    /\ QuizIdle
    /\ max_retries = 0
    /\ CallEntry
    /\ Constructed(1, 1, 0)

NextPaper == PaperConstruct

SpecPaper == InitPaper /\ [][NextPaper]_vars

\* the attempts made so far that were accepted
AcceptedAttempts == {k \in 1..Len(exam_log) : exam_log[k]}

\* C14: generate_exam_paper makes at most 3 attempts, one model-call round
\* each; an attempt is accepted iff it yields at least one constructible
\* question and the sum of their marks is within 20% of the requested total;
\* the first accepted attempt is the last attempt made and the returned
\* paper holds its questions; with no accepted attempt None is returned.
C14_FirstAcceptedWins ==
    /\ [](/\ Len(exam_log) <= 3
          /\ exam_pc = "check" => Len(exam_log) < 3
          /\ AcceptedAttempts \subseteq {Len(exam_log)}
          /\ exam_return = "paper" =>
                /\ AcceptedAttempts # {}
                /\ exam_paper.ok
                /\ exam_paper.questions = last_attempt.attempt_questions
          /\ (exam_pc = "returned" /\ AcceptedAttempts = {}) =>
                /\ exam_return = "None"
                /\ exam_paper = NoPaper)
    /\ [][exam_pc = "check" =>
            exam_log' = Append(exam_log,
                /\ last_attempt.attempt_questions # <<>>
                /\ 5 * Abs(SumMarks(last_attempt.attempt_questions) - total_marks)
                      <= total_marks)]_vars

\* the first two attempts were rejected, the third one, one mark off the
\* requested total of 5, was accepted and its questions returned
C14_Witness ==
    /\ exam_pc = "returned"
    /\ exam_log = <<FALSE, FALSE, TRUE>>
    /\ total_marks = 5
    /\ SumMarks(last_attempt.attempt_questions) = 4
    /\ exam_return = "paper"

\* C15: a returned ExamPaper declares as total_marks the sum of the marks of
\* its questions, not the requested total, that sum being within 20% of the
\* requested total; an accepted attempt with a usable header yields such a
\* paper even when its sum differs from the request.
C15_RecomputedTotal ==
    /\ exam_return = "paper" =>
          /\ exam_paper.ok
          /\ exam_paper.questions # <<>>
          /\ exam_paper.total_marks = SumMarks(exam_paper.questions)
          /\ 5 * Abs(exam_paper.total_marks - total_marks) <= total_marks
    /\ (exam_pc = "returned" /\ AcceptedAttempts # {}
          /\ last_attempt.title_ok /\ last_attempt.duration = -1)
       => exam_return = "paper"

C15_Witness ==
    /\ exam_return = "paper"
    /\ exam_paper.total_marks = 7
    /\ total_marks = 6
    /\ Len(exam_paper.questions) = 2

MaxCount == 6            \* question_count requested: 0..MaxCount
MaxReplyItems == 5       \* entries of the 'questions' list of a reply
MaxCalls == 2            \* model calls followed in one generate_quiz_questions

\* `min(5, question_count)`: at most 5 questions per batch
BatchLimit == 5
\* `await asyncio.sleep(2)` between batches
BatchDelay == 2

\* an entry of result['questions'] that QuizQuestion accepts: whether the
\* keys read with q_data[...] are there, the lengths of the stripped texts,
\* the number of options, points and difficulty_level
WellFormedItem ==
    [keys_present |-> TRUE, text_length |-> 10, answer_present |-> TRUE,
     explanation_length |-> 10, options |-> 2, points |-> 1, difficulty |-> 5]

\* what can be wrong with an entry
Defects ==
    {"missing_key", "short_text", "no_answer", "short_explanation",
     "one_option", "no_points", "high_points", "high_difficulty"}

DefectiveItem(defect) ==
    CASE defect = "missing_key" -> [WellFormedItem EXCEPT !.keys_present = FALSE]
      [] defect = "short_text" -> [WellFormedItem EXCEPT !.text_length = 9]
      [] defect = "no_answer" -> [WellFormedItem EXCEPT !.answer_present = FALSE]
      [] defect = "short_explanation" ->
            [WellFormedItem EXCEPT !.explanation_length = 9]
      [] defect = "one_option" -> [WellFormedItem EXCEPT !.options = 1]
      [] defect = "no_points" -> [WellFormedItem EXCEPT !.points = 0]
      [] defect = "high_points" -> [WellFormedItem EXCEPT !.points = 11]
      [] defect = "high_difficulty" -> [WellFormedItem EXCEPT !.difficulty = 6]
      [] OTHER -> WellFormedItem

\* a plausible slip: the constructor checks nothing
QuizPostInit_Unchecked(item) == TRUE

\* q_data['question_text'] ... and QuizQuestion.__post_init__: TRUE where the
\* object is made, FALSE where KeyError or ValueError is raised
QuizPostInit(item) ==
    /\ item.keys_present
    /\ ~(item.text_length < 10)
    /\ item.answer_present
    /\ ~(item.explanation_length < 10)
    /\ ~(item.options < 2)
    /\ 1 <= item.points /\ item.points <= 10
    /\ 1 <= item.difficulty /\ item.difficulty <= 5

\* what a model call gives: no response; a response without a JSON object;
\* an object without 'questions'; an object whose 'questions' is not a list;
\* or a list of n entries, all well formed or entry `bad` with a defect
QuizReplies ==
    [kind : {"no_response", "no_json", "no_questions_key",
             "questions_not_a_list"}, n : {0}, bad : {0}, defect : {"none"}]
    \cup [kind : {"parsed"}, n : 0..MaxReplyItems, bad : {0}, defect : {"none"}]
    \cup {[kind |-> "parsed", n |-> n, bad |-> b, defect |-> d] :
             n \in 1..MaxReplyItems, b \in 1..MaxReplyItems, d \in Defects}

\* entry i of the 'questions' list of a reply
ReplyItem(r, i) == IF i = r.bad THEN DefectiveItem(r.defect) ELSE WellFormedItem

\* QuizQuestion(...) for entry i of the reply to call b
QuizQuestionNew(b, i) ==
    [batch |-> b, item |-> i, question_type |-> "multiple_choice",
     generation_model |-> "config.model"]

\* batch_questions: the entries of the reply that QuizQuestion accepts, in
\* the order of the reply
RECURSIVE BatchQuestionsFrom(_, _, _)
BatchQuestionsFrom(b, r, i) ==
    IF i > r.n THEN <<>>
    ELSE (IF QuizPostInit(ReplyItem(r, i)) THEN <<QuizQuestionNew(b, i)>>
          ELSE <<>>) \o BatchQuestionsFrom(b, r, i + 1)

BatchQuestions(b, r) == BatchQuestionsFrom(b, r, 1)

\* a plausible slip: the whole request goes into one call
BatchSize_Uncapped == question_count

\* `batch_size = min(5, question_count)`
BatchSize == Min(BatchLimit, question_count)

\* `current_batch_size = min(batch_size, remaining_questions)`
CurrentBatchSize == Min(BatchSize, remaining_questions)

\* a plausible slip: a batch replaces what was accumulated
Accumulate_Replace(acc, batch) == batch

\* `all_questions.extend(batch_questions)`
Accumulate(acc, batch) == acc \o batch

\* a plausible slip: a failed batch discards what was accumulated
AfterBreak_Empty(acc) == <<>>

\* `break`, then `return all_questions`
AfterBreak(acc) == acc

\* generate_quiz_questions(topic_info, question_count) is entered
QuizEntry ==
    /\ quiz_pc = "loop"
    /\ question_count \in 0..MaxCount
    /\ remaining_questions = question_count
    /\ all_questions = <<>>
    /\ quiz_calls = 0
    /\ quiz_events = <<>>
    /\ quiz_break = "none"
    /\ quiz_exact = TRUE
    /\ quiz_return = <<>>
    /\ quiz_reply = [kind |-> "none", n |-> 0, bad |-> 0, defect |-> "none"]

\* `while remaining_questions > 0` is false: return all_questions
QuizDone ==
    /\ quiz_pc = "loop"
    /\ remaining_questions <= 0
    /\ quiz_pc' = "returned"
    /\ quiz_break' = "done"
    /\ quiz_return' = all_questions
    /\ quiz_events' = Append(quiz_events, Ev("return", Len(all_questions)))
    /\ UNCHANGED <<question_count, remaining_questions, all_questions,
                   quiz_calls, quiz_exact, quiz_reply, notQuiz>>

\* the prompt for current_batch_size questions is sent: await _call_ollama
QuizCall ==
    /\ quiz_pc = "loop"
    /\ remaining_questions > 0
    /\ quiz_calls < MaxCalls
    /\ quiz_calls' = quiz_calls + 1
    /\ quiz_events' = Append(quiz_events, Ev("call", CurrentBatchSize))
    /\ quiz_pc' = "in_call"
    /\ UNCHANGED <<question_count, remaining_questions, all_questions,
                   quiz_break, quiz_exact, quiz_return, quiz_reply, notQuiz>>

\* `if not response: break` and `if not result or 'questions' not in result:
\* break`, then the return after the loop
QuizBreak(r) ==
    /\ quiz_pc = "in_call"
    /\ r.kind \in {"no_response", "no_json", "no_questions_key"}
    /\ quiz_break' = IF r.kind = "no_response" THEN "no_response" ELSE "invalid"
    /\ quiz_exact' = FALSE
    /\ all_questions' = AfterBreak(all_questions)
    /\ quiz_return' = AfterBreak(all_questions)
    /\ quiz_events' = Append(quiz_events,
                             Ev("return", Len(AfterBreak(all_questions))))
    /\ quiz_pc' = "returned"
    /\ quiz_reply' = r
    /\ UNCHANGED <<question_count, remaining_questions, quiz_calls, notQuiz>>

\* enumerate(result['questions']) raises: the outer `except Exception`
\* returns []
QuizException(r) ==
    /\ quiz_pc = "in_call"
    /\ r.kind = "questions_not_a_list"
    /\ quiz_break' = "exception"
    /\ quiz_exact' = FALSE
    /\ quiz_return' = <<>>
    /\ quiz_events' = Append(quiz_events, Ev("return", 0))
    /\ quiz_pc' = "returned"
    /\ quiz_reply' = r
    /\ UNCHANGED <<question_count, remaining_questions, all_questions,
                   quiz_calls, notQuiz>>

\* the reply is parsed and its questions accumulated; with questions still
\* missing the delay starts, else the loop ends and the list is returned
QuizReply(r) ==
    /\ quiz_pc = "in_call"
    /\ r.kind = "parsed"
    /\ r.bad <= r.n
    /\ quiz_reply' = r
    /\ LET batch == BatchQuestions(quiz_calls, r)
           acc   == Accumulate(all_questions, batch)
           left  == remaining_questions - Len(batch)
           requested == quiz_events[Len(quiz_events)].n
       IN  /\ all_questions' = acc
           /\ remaining_questions' = left
           /\ quiz_exact' = (quiz_exact /\ r.n = requested /\ r.bad = 0)
           /\ IF left > 0
              THEN /\ quiz_pc' = "sleep"
                   /\ quiz_events' = Append(quiz_events, Ev("reply", Len(batch)))
                   /\ UNCHANGED <<quiz_break, quiz_return>>
              ELSE /\ quiz_pc' = "returned"
                   /\ quiz_break' = "done"
                   /\ quiz_return' = acc
                   /\ quiz_events' = quiz_events \o
                          <<Ev("reply", Len(batch)), Ev("return", Len(acc))>>
    /\ UNCHANGED <<question_count, quiz_calls, notQuiz>>

\* `await asyncio.sleep(2)` is over
QuizSleepDone ==
    /\ quiz_pc = "sleep"
    /\ quiz_events' = Append(quiz_events, Ev("sleep", BatchDelay))
    /\ quiz_pc' = "loop"
    /\ UNCHANGED <<question_count, remaining_questions, all_questions,
                   quiz_calls, quiz_break, quiz_exact, quiz_return, quiz_reply,
                   notQuiz>>

InitQuiz ==
    /\ QuizEntry
    /\ ValidateIdle
    /\ ConfigIdle
    /\ ExtractIdle
    /\ ScoreIdle
    /\ DispatchIdle
    /\ NeedsIdle
    /\ GateIdle
    /\ ExamIdle
    /\ max_retries = 0
    /\ CallEntry
    /\ Constructed(1, 1, 0)

NextQuiz ==
    \/ QuizDone
    \/ QuizCall
    \/ \E r \in QuizReplies : QuizBreak(r)
    \/ \E r \in QuizReplies : QuizException(r)
    \/ \E r \in QuizReplies : QuizReply(r)
    \/ QuizSleepDone

SpecQuiz == InitQuiz /\ [][NextQuiz]_vars

\* the questions accumulated by the replies before event i of the trace
RECURSIVE RepliedBefore(_)
RepliedBefore(i) ==
    IF i <= 1 THEN 0
    ELSE RepliedBefore(i - 1)
         + (IF quiz_events[i - 1].kind = "reply" THEN quiz_events[i - 1].n ELSE 0)

\* C17: every model call of generate_quiz_questions asks for min(5, remaining)
\* items, so for at most 5; the calls are strictly sequential: a call other
\* than the first comes right after the 2-second delay that followed the
\* parsing and accumulation of the previous reply; the delay occurs only
\* between two batches, never before the return.
C17_SequentialBatches ==
    \A i \in 1..Len(quiz_events) :
       LET e == quiz_events[i] IN
       /\ e.kind = "call" =>
             /\ e.n <= 5
             /\ e.n = Min(5, question_count - RepliedBefore(i))
             /\ \/ i = 1
                \/ /\ i >= 4
                   /\ quiz_events[i - 1] = Ev("sleep", 2)
                   /\ quiz_events[i - 2].kind = "reply"
                   /\ quiz_events[i - 3].kind = "call"
       /\ e.kind = "reply" => (i >= 2 /\ quiz_events[i - 1].kind = "call")
       /\ e.kind = "sleep" =>
             /\ i >= 3
             /\ quiz_events[i - 1].kind = "reply"
             /\ IF i < Len(quiz_events)
                THEN quiz_events[i + 1].kind = "call"
                ELSE quiz_pc = "loop" /\ remaining_questions > 0
       /\ e.kind = "return" => (i = Len(quiz_events) /\ quiz_pc = "returned")

\* six questions requested: a batch of 5, the delay, a batch of 1, no delay
C17_Witness ==
    /\ question_count = 6
    /\ quiz_events = <<Ev("call", 5), Ev("reply", 5), Ev("sleep", 2),
                       Ev("call", 1), Ev("reply", 1), Ev("return", 6)>>

\* C18: when the model call of a batch gives no result, or a reply without a
\* JSON object holding a 'questions' key, generate_quiz_questions makes no
\* further call and returns the questions accumulated from the earlier
\* batches (the empty list if it was the first batch); after the return
\* nothing more happens.
C18_StopsEarly ==
    /\ [][(quiz_pc = "in_call" /\ quiz_break' \in {"no_response", "invalid"})
          => /\ quiz_pc' = "returned"
             /\ quiz_return' = all_questions
             /\ quiz_calls' = quiz_calls
             /\ quiz_calls = 1 => quiz_return' = <<>>]_vars
    /\ [][quiz_pc = "returned" => UNCHANGED quizVars]_vars

\* the second batch failed: the questions of the first one are returned
C18_Witness ==
    /\ quiz_pc = "returned"
    /\ quiz_break \in {"no_response", "invalid"}
    /\ quiz_calls = 2
    /\ Len(quiz_return) >= 1
    /\ quiz_return = all_questions

\* C19: if every reply holds exactly the items its batch asked for, all
\* well-formed, generate_quiz_questions(topic, count) returns exactly count
\* questions in reply order, each tagged multiple-choice with the generator's
\* model, after exactly ceil(count / 5) model calls.
C19_ExactReplies ==
    (quiz_pc = "returned" /\ quiz_exact) =>
       /\ Len(quiz_return) = question_count
       /\ quiz_calls = (question_count + 4) \div 5
       /\ \A k \in 1..Len(quiz_return) :
             quiz_return[k] =
                [batch |-> ((k - 1) \div 5) + 1, item |-> ((k - 1) % 5) + 1,
                 question_type |-> "multiple_choice",
                 generation_model |-> "config.model"]

C19_Witness ==
    /\ quiz_pc = "returned"
    /\ quiz_exact
    /\ question_count = 6
    /\ quiz_calls = 2
    /\ Len(quiz_return) = 6

\* ------------------------------------------------------------------------
\* BatchQuestionGenerator.analyze_generation_needs
\* ------------------------------------------------------------------------
MaxRows == 2             \* rows returned by get_topic_question_counts
MaxCurrent == 5          \* total_questions of a row: 0..MaxCurrent
MaxThreshold == 3        \* configured min / target: 1..MaxThreshold, and
                         \* the default pair

\* `min(needed, 20)`: limit per batch
NeedCap == 20

\* BatchGenerationConfig defaults: min_questions_per_topic = 20,
\* target_questions_per_topic = 50
DefaultThresholds == [min |-> 20, target |-> 50]

\* the threshold pairs a configuration may hold (nothing in the code orders
\* min and target)
ThresholdPairs ==
    [min : 1..MaxThreshold, target : 1..MaxThreshold] \cup {DefaultThresholds}

TopicRows ==
    [subject_name : {"Mathematics", "Physics"},
     total_questions : 0..MaxCurrent, info_ok : BOOLEAN]

\* `if subject_filter and topic_data['subject_name'] != subject_filter: continue`
PassesFilter(row) ==
    subject_filter = "None" \/ row.subject_name = subject_filter

\* the if / elif / else on current_count: "high", "medium", or "skip"
Priority(current) ==
    IF current < min_questions_per_topic THEN "high"
    ELSE IF current < target_questions_per_topic THEN "medium"
    ELSE "skip"

\* `needed = target - current_count`, then `min(needed, 20)`
NeededQuestions(current) ==
    Min(target_questions_per_topic - current, NeedCap)

\* the loop over result.data from row k on: a TopicGenerationNeed for every
\* row that passes the filter, is not skipped and whose topic info is found
RECURSIVE CollectNeeds(_)
CollectNeeds(k) ==
    IF k > Len(topic_rows) THEN <<>>
    ELSE LET row == topic_rows[k]
             cur == row.total_questions
         IN  (IF PassesFilter(row) /\ Priority(cur) # "skip" /\ row.info_ok
              THEN <<[row |-> k, current_question_count |-> cur,
                      needed_questions |-> NeededQuestions(cur),
                      priority |-> Priority(cur)]>>
              ELSE <<>>) \o CollectNeeds(k + 1)

\* sort_key: (priority_weight, needed_questions), compared as tuples
PriorityWeight(p) == IF p = "high" THEN 3 ELSE IF p = "medium" THEN 2 ELSE 1
KeyGreaterOrEqual(a, b) ==
    \/ PriorityWeight(a.priority) > PriorityWeight(b.priority)
    \/ /\ PriorityWeight(a.priority) = PriorityWeight(b.priority)
       /\ a.needed_questions >= b.needed_questions

\* a plausible slip: the list is returned in the order of the rows
SortNeeds_Unsorted(seq) == seq

\* needs.sort(key=sort_key, reverse=True): descending, equal keys keeping
\* their order
RECURSIVE SortNeeds(_)
SortNeeds(seq) ==
    IF seq = <<>> THEN <<>>
    ELSE LET front  == SortNeeds(SubSeq(seq, 1, Len(seq) - 1))
             x      == seq[Len(seq)]
             before == Cardinality({i \in 1..Len(front) :
                                       KeyGreaterOrEqual(front[i], x)})
         IN  SubSeq(front, 1, before) \o <<x>>
             \o SubSeq(front, before + 1, Len(front))

\* analyze_generation_needs(subject_filter) is entered, the RPC has answered
NeedsEntry ==
    /\ needs_pc = "entered"
    /\ topic_rows \in SeqsUpTo(TopicRows, MaxRows)
    /\ subject_filter \in {"None", "Mathematics"}
    /\ \E th \in ThresholdPairs :
          /\ min_questions_per_topic = th.min
          /\ target_questions_per_topic = th.target
    /\ needs = <<>>

\* `if not result.data: return []`; else the loop, the sort and the return
AnalyzeNeeds ==
    /\ needs_pc = "entered"
    /\ needs' = IF topic_rows = <<>> THEN <<>> ELSE SortNeeds(CollectNeeds(1))
    /\ needs_pc' = "returned"
    /\ UNCHANGED <<topic_rows, subject_filter, min_questions_per_topic,
                   target_questions_per_topic, notNeeds>>

InitNeeds ==
    /\ NeedsEntry
    /\ ValidateIdle
    /\ ConfigIdle
    /\ ExtractIdle
    /\ ScoreIdle
    /\ DispatchIdle
    /\ GateIdle
    /\ ExamIdle
    /\ QuizIdle
    /\ max_retries = 0
    /\ CallEntry
    /\ Constructed(1, 1, 0)

NextNeeds == AnalyzeNeeds

SpecNeeds == InitNeeds /\ [][NextNeeds]_vars

\* the entries of the returned list made for row k
EntriesOf(k) == {i \in 1..Len(needs) : needs[i].row = k}

\* the classification the claim states for row k
ClassifiedAsStated(k) ==
    LET cur == topic_rows[k].total_questions IN
    /\ cur < min_questions_per_topic =>
          /\ Cardinality(EntriesOf(k)) = 1
          /\ \A i \in EntriesOf(k) :
                /\ needs[i].priority = "high"
                /\ needs[i].needed_questions
                      = Min(target_questions_per_topic - cur, 20)
    /\ (min_questions_per_topic <= cur /\ cur < target_questions_per_topic) =>
          /\ Cardinality(EntriesOf(k)) = 1
          /\ \A i \in EntriesOf(k) :
                /\ needs[i].priority = "medium"
                /\ needs[i].needed_questions
                      = Min(target_questions_per_topic - cur, 20)
    /\ cur >= target_questions_per_topic => EntriesOf(k) = {}

\* a row the analysis considers: it passes the subject filter and its topic
\* details are found
Considered(k) ==
    /\ subject_filter = "None" \/ topic_rows[k].subject_name = subject_filter
    /\ topic_rows[k].info_ok

\* C20: for every row considered, current < min gives 'high',
\* min <= current < target gives 'medium', current >= target excludes the
\* topic, and needed_questions = min(target - current, 20) when included.
C20_Classification ==
    needs_pc = "returned" =>
       \A k \in 1..Len(topic_rows) : Considered(k) => ClassifiedAsStated(k)

\* a configuration file with min_questions_per_topic above
\* target_questions_per_topic: a topic that has reached its target is
\* returned first, as 'high', with a need that is not positive
C20_Witness ==
    /\ needs_pc = "returned"
    /\ target_questions_per_topic < min_questions_per_topic
    /\ Len(needs) >= 1
    /\ needs[1].current_question_count >= target_questions_per_topic
    /\ needs[1].priority = "high"
    /\ needs[1].needed_questions <= 0

\* C21: the returned list is ordered by (priority weight, needed_questions),
\* both descending: every 'high' need precedes every 'medium' need, and
\* within one priority the needed_questions never increase.
C21_Ordered ==
    needs_pc = "returned" =>
       \A i, j \in 1..Len(needs) : i < j =>
          /\ PriorityWeight(needs[i].priority) >= PriorityWeight(needs[j].priority)
          /\ (needs[i].priority = "medium" => needs[j].priority = "medium")
          /\ needs[i].priority = needs[j].priority =>
                needs[i].needed_questions >= needs[j].needed_questions

\* two rows that the sort swapped
C21_Witness ==
    /\ needs_pc = "returned"
    /\ Len(needs) = 2
    /\ needs[1].row = 2
    /\ needs[2].row = 1
    /\ \/ needs[1].priority = "high" /\ needs[2].priority = "medium"
       \/ /\ needs[1].priority = needs[2].priority
          /\ needs[1].needed_questions > needs[2].needed_questions

\* ------------------------------------------------------------------------
\* BatchQuestionGenerator.run_batch_generation, called with any arguments
\* (run_priority_generation, run_subject_generation, the command line)
\* ------------------------------------------------------------------------
\* what generate_for_topic ends with: (False, 0, errors), an exception out
\* of the task, or (True, n, []) with n questions persisted
TopicOutcomes ==
    [kind : {"failure", "raise"}, question_count : {0}]
        \cup [kind : {"success"}, question_count : 1..MaxQuestions]

\* the lists analyze_generation_needs can return: each topic at most once
NeedsLists ==
    {s \in SeqsUpTo(TaskIds, MaxTopics) :
        \A i, j \in 1..Len(s) : i # j => s[i] # s[j]}

\* max_topics: None, or an integer (`--max-topics` takes any integer)
MaxTopicsArgs ==
    {NoMaxTopics} \cup [given : {TRUE}, value : (-1)..MaxTopics]

\* seq[:m] of Python
SliceTo(seq, m) ==
    IF m >= 0 THEN SubSeq(seq, 1, Min(m, Len(seq)))
    ELSE SubSeq(seq, 1, Max(Len(seq) + m, 0))

\* `if max_topics: needs = needs[:max_topics]`
LimitedNeeds ==
    IF max_topics.given /\ max_topics.value # 0
    THEN SliceTo(batch_needs, max_topics.value)
    ELSE batch_needs

\* `for need in needs: if len(tasks) >= remaining_budget: break; ...`
CreatedTasks ==
    SubSeq(LimitedNeeds, 1, Min(Len(LimitedNeeds), RemainingBudget))

\* run_batch_generation(subject_filter, max_topics) is entered
BatchEntry ==
    /\ dispatch_pc = "entered"
    /\ max_topics \in MaxTopicsArgs
    /\ batch_needs \in NeedsLists
    /\ topic_outcome \in [TaskIds -> TopicOutcomes]
    /\ entry_count = daily_generation_count
    /\ dispatched = <<>>
    /\ completion_order = <<>>

\* the daily-limit check returns
BatchLimitReached ==
    /\ dispatch_pc = "entered"
    /\ LimitReached
    /\ batch_result' = LimitReachedResult
    /\ dispatch_pc' = "returned"
    /\ UNCHANGED <<max_topics, batch_needs, topic_outcome, entry_count,
                   dispatched, completion_order, max_concurrent_generations,
                   max_daily_generations, daily_generation_count, sem_value,
                   task, run, run_log, batch_calls, schedVars, callVars,
                   gateVars, examVars, quizVars, needsVars, scoreVars, valVars,
                   configVars, extractVars>>

\* `if not needs`: nothing to do
BatchNoNeeds ==
    /\ dispatch_pc = "entered"
    /\ ~LimitReached
    /\ batch_needs = <<>>
    /\ batch_result' = NoNeedsResult
    /\ dispatch_pc' = "returned"
    /\ UNCHANGED <<max_topics, batch_needs, topic_outcome, entry_count,
                   dispatched, completion_order, max_concurrent_generations,
                   max_daily_generations, daily_generation_count, sem_value,
                   task, run, run_log, batch_calls, schedVars, callVars,
                   gateVars, examVars, quizVars, needsVars, scoreVars, valVars,
                   configVars, extractVars>>

\* the slice, the budget cut and the creation of the tasks; the call then
\* suspends at its first `await task`
BatchCreateTasks ==
    /\ dispatch_pc = "entered"
    /\ ~LimitReached
    /\ batch_needs # <<>>
    /\ dispatched' = CreatedTasks
    /\ task' = [t \in TaskIds |->
                   IF t <= Len(CreatedTasks) THEN CreatedTask ELSE NoTask]
    /\ run' = [IdleRun EXCEPT !.pc = "awaiting",
                              !.n_tasks = Len(CreatedTasks),
                              !.await_idx = 1]
    /\ dispatch_pc' = "awaiting"
    /\ UNCHANGED <<max_topics, batch_needs, topic_outcome, entry_count,
                   completion_order,
                   max_concurrent_generations, max_daily_generations,
                   daily_generation_count, sem_value, batch_result, run_log,
                   batch_calls, schedVars, callVars,
                   gateVars, examVars, quizVars, needsVars, scoreVars, valVars,
                   configVars, extractVars>>

\* a plausible slip: a task that ends before an earlier one loses its result
Settled_Racy(t, o) ==
    [pc |-> "done",
     success |-> (o.kind = "success" /\ \A u \in 1..(t - 1) : task[u].pc # "pending"),
     question_count |-> o.question_count, delays |-> 1, releases |-> 1]

\* the task of position t once generate_for_topic has returned its tuple
Settled(t, o) ==
    [pc |-> "done", success |-> (o.kind = "success"),
     question_count |-> o.question_count, delays |-> 1, releases |-> 1]

\* the task of position t ends, whatever the other tasks have done
TaskSettle(t) ==
    /\ dispatch_pc = "awaiting"
    /\ task[t].pc = "pending"
    /\ LET o == topic_outcome[dispatched[t]] IN
       task' = [task EXCEPT ![t] =
                   IF o.kind = "raise" THEN [task[t] EXCEPT !.pc = "raised"]
                   ELSE Settled(t, o)]
    /\ completion_order' = Append(completion_order, t)
    /\ UNCHANGED <<max_concurrent_generations, max_daily_generations,
                   daily_generation_count, sem_value, run, batch_result,
                   run_log, batch_calls, schedVars, callVars, gateVars,
                   examVars, quizVars, needsVars, scoreVars, valVars, configVars, extractVars, dispatch_pc,
                   max_topics,
                   batch_needs, topic_outcome, entry_count, dispatched>>

\* every task awaited: the BatchGenerationResult is built and returned
BatchReturn ==
    /\ dispatch_pc = "awaiting"
    /\ run.pc = "awaiting"
    /\ run.await_idx > run.n_tasks
    /\ batch_result' = BatchGenerationResult(Len(dispatched),
                           run.successful_generations, run.failed_generations,
                           run.total_questions_generated, "tasks")
    /\ run' = [run EXCEPT !.pc = "idle"]
    /\ dispatch_pc' = "returned"
    /\ UNCHANGED <<max_topics, batch_needs, topic_outcome, entry_count,
                   dispatched, completion_order, max_concurrent_generations,
                   max_daily_generations, daily_generation_count, sem_value,
                   task, run_log, batch_calls, schedVars, callVars,
                   gateVars, examVars, quizVars, needsVars, scoreVars, valVars,
                   configVars, extractVars>>

InitDispatch ==
    /\ \E daily \in 1..MaxDaily, count \in 0..MaxDaily :
          Resting(1, daily, 0, count)
    /\ BatchEntry
    /\ ValidateIdle
    /\ ConfigIdle
    /\ ExtractIdle
    /\ ScoreIdle
    /\ GateIdle
    /\ ExamIdle
    /\ QuizIdle
    /\ NeedsIdle
    /\ max_retries = 0
    /\ CallEntry

NextDispatch ==
    \/ BatchLimitReached
    \/ BatchNoNeeds
    \/ BatchCreateTasks
    \/ \E t \in TaskIds : TaskSettle(t)
    \/ Aggregate /\ dispatch_pc = "awaiting"
    \/ BatchReturn

SpecDispatch == InitDispatch /\ [][NextDispatch]_vars

\* min(backlog length, max_topics when given, remaining daily budget), a
\* budget that is used up leaving nothing
StatedDispatchLength ==
    LET budget == Max(max_daily_generations - entry_count, 0)
        limit  == IF max_topics.given THEN Min(Len(batch_needs), max_topics.value)
                  ELSE Len(batch_needs)
    IN  Max(Min(limit, budget), 0)

\* C22: the tasks are dispatched for a prefix of the backlog, in backlog
\* order, of length min(backlog length, max_topics when given, remaining
\* daily budget), and total_topics_processed is the number of tasks.
C22_DispatchPrefix ==
    /\ dispatch_pc \in {"awaiting", "returned"} =>
          /\ Len(dispatched) = StatedDispatchLength
          /\ dispatched = SubSeq(batch_needs, 1, Len(dispatched))
    /\ dispatch_pc = "returned" =>
          batch_result.total_topics_processed = Len(dispatched)

\* `--max-topics -1` with a backlog of two topics and budget left: a task is
\* dispatched for the first topic
C22_Witness ==
    /\ dispatch_pc = "returned"
    /\ max_topics.given
    /\ max_topics.value = -1
    /\ Len(batch_needs) = 2
    /\ dispatched = <<batch_needs[1]>>
    /\ batch_result.total_topics_processed = 1

\* the dispatched positions whose topic ends with outcome kind k
PositionsOf(k) ==
    {i \in 1..Len(dispatched) : topic_outcome[dispatched[i]].kind = k}

\* the questions persisted by the topics of positions 1..k
RECURSIVE PersistedUpTo(_)
PersistedUpTo(k) ==
    IF k = 0 THEN 0
    ELSE PersistedUpTo(k - 1) + topic_outcome[dispatched[k]].question_count

\* C23: for fixed dispatched topics and fixed per-topic outcomes the counts
\* of the BatchGenerationResult and the final daily_generation_count are
\* the same whatever the order in which the tasks end; a task that ends
\* changes neither the counters nor daily_generation_count.
C23_OrderIndependent ==
    /\ [](dispatch_pc = "returned" =>
            /\ batch_result.successful_generations
                  = Cardinality(PositionsOf("success"))
            /\ batch_result.failed_generations
                  = Cardinality(PositionsOf("failure") \cup PositionsOf("raise"))
            /\ batch_result.total_questions_generated
                  = PersistedUpTo(Len(dispatched))
            /\ daily_generation_count
                  = entry_count + PersistedUpTo(Len(dispatched)))
    /\ [][completion_order' # completion_order =>
             /\ run' = run
             /\ daily_generation_count' = daily_generation_count]_vars

\* two tasks, the second ending first, one succeeding and one failing
C23_Witness ==
    /\ dispatch_pc = "returned"
    /\ completion_order = <<2, 1>>
    /\ batch_result.successful_generations = 1
    /\ batch_result.failed_generations = 1
    /\ daily_generation_count > entry_count

\* the number of issues of a severity in the list
CountOf(severity) ==
    Cardinality({k \in 1..Len(issues) : issues[k] = severity})

\* clamp(1.0 - 0.30c - 0.20e - 0.10w - 0.05i, 0, 1), in hundredths
StatedScore ==
    Max(0, Min(100, 100 - 30 * CountOf("critical") - 20 * CountOf("error")
                        - 10 * CountOf("warning") - 5 * CountOf("info")))

\* C25: for c critical, e error, w warning and i info issues the score is
\* clamp(1.0 - 0.30c - 0.20e - 0.10w - 0.05i, 0, 1): 1.0 for the empty
\* list, 0.35 for one issue of each severity, 0.0 for four criticals,
\* always within [0,1], and not increased by a further issue.
C25_ScoreFormula ==
    score_pc = "returned" =>
       /\ base_score = Hundredths(StatedScore)
       /\ FloatAtLeast(base_score, FloatZero)
       /\ FloatAtLeast(FloatOne, base_score)
       /\ \A s \in Severities :
             FloatAtLeast(base_score, QualityScore(Append(issues, s)))

\* one issue of each severity, in the order of the repository's test: the
\* score returned is the double just below 0.35 (0.3499999999999999)
C25_Witness ==
    /\ score_pc = "returned"
    /\ issues = <<"critical", "error", "warning", "info">>
    /\ base_score = Float(FALSE, 375809638, 53687080)
    /\ base_score # Hundredths(35)

\* ------------------------------------------------------------------------
\* QuestionQualityValidator: validate_quiz_question, validate_exam_question,
\* validate_exam_paper. The objects are dataclass instances whose fields can
\* be assigned after construction, so a validator can be handed any values.
\* ------------------------------------------------------------------------
MaxPoor == 1             \* poor-quality phrases found in a question text
MaxPaperMarks == 2       \* marks of a question of a paper: 0..MaxPaperMarks
MaxPaperQuestions == 2   \* questions of a paper
MaxPaperTotal == 4       \* total_marks of a paper: 0..MaxPaperTotal

Issue(severity, message) ==
    [severity |-> severity, message |-> message, question |-> 0]

\* what the checks look at in a QuizQuestion: question_text blank, shorter
\* than 20, longer than 500 or neither; ending with '?' or holding an
\* instruction word; poor-quality phrases; the options of a multiple choice
\* question; the explanation; the correct answer; academic words; a capital
\* first letter
NoOptions == [present |-> FALSE, few |-> FALSE, label_missing |-> FALSE,
              answer_in |-> FALSE, duplicates |-> FALSE, short_text |-> FALSE]
QuizObjects ==
    [kind : {"quiz"}, text : {"blank", "short", "ok", "long"},
     clear : BOOLEAN, poor : 0..MaxPoor, multiple_choice : BOOLEAN,
     options : {NoOptions} \cup
               [present : {TRUE}, few : BOOLEAN, label_missing : BOOLEAN,
                answer_in : BOOLEAN, duplicates : BOOLEAN, short_text : BOOLEAN],
     explanation : {"blank", "short", "ok", "long"},
     answer_blank : BOOLEAN, academic : BOOLEAN, capital : BOOLEAN]

\* what the checks look at in an ExamQuestion: question_text shorter than
\* 30, marks (0: outside 1..20), answer_text shorter than 20, academic
\* words, a capital first letter
ExamQuestionObjects ==
    [kind : {"exam_question"}, text_short : BOOLEAN, marks : 0..MaxPaperMarks,
     answer_short : BOOLEAN, academic : BOOLEAN, capital : BOOLEAN]

\* the questions of the papers looked at
PaperQuestions ==
    {q \in ExamQuestionObjects : ~q.answer_short /\ q.capital}

PaperObjects ==
    [kind : {"exam_paper"},
     questions : UNION {[1..k -> PaperQuestions] : k \in 0..MaxPaperQuestions},
     total_marks : 0..MaxPaperTotal]

When(cond, issue) == IF cond THEN <<issue>> ELSE <<>>

\* _validate_question_text
ValidateQuestionText(q) ==
    IF q.text = "blank" THEN <<Issue("critical", "Question text is empty")>>
    ELSE When(q.text = "short", Issue("error", "Question text too short"))
         \o When(q.text = "long", Issue("warning", "Question text very long"))
         \o When(~q.clear, Issue("warning", "Question text should end with a question mark"))
         \o [k \in 1..q.poor |-> Issue("error", "Contains poor quality indicator")]

\* _validate_multiple_choice_options
ValidateMultipleChoiceOptions(q) ==
    IF ~q.options.present
    THEN <<Issue("critical", "Multiple choice question missing options")>>
    ELSE When(q.options.few, Issue("error", "Insufficient options"))
         \o When(q.options.label_missing, Issue("error", "Missing option label"))
         \o When(~q.options.answer_in, Issue("critical", "Correct answer not found in options"))
         \o When(q.options.duplicates, Issue("error", "Duplicate option texts found"))
         \o When(q.options.short_text, Issue("error", "Option is too short"))

\* _validate_explanation
ValidateExplanation(q) ==
    IF q.explanation = "blank" THEN <<Issue("error", "Explanation is missing")>>
    ELSE When(q.explanation = "short", Issue("warning", "Explanation too short"))
         \o When(q.explanation = "long", Issue("warning", "Explanation very long"))

\* _validate_correct_answer
ValidateCorrectAnswer(q) ==
    IF q.answer_blank THEN <<Issue("critical", "Correct answer is missing")>>
    ELSE When(q.multiple_choice /\ q.options.present /\ ~q.options.answer_in,
              Issue("critical", "Correct answer not in options"))

\* _validate_academic_quality
ValidateAcademicQuality(q) ==
    When(~q.academic, Issue("info", "Consider using more academic vocabulary"))
    \o When(~q.capital, Issue("warning", "Question should start with capital letter"))

SeveritiesOf(list) == [k \in 1..Len(list) |-> list[k].severity]

\* a plausible slip: only CRITICAL issues make a result invalid
NoneBlocking_CriticalOnly(list) ==
    \A k \in 1..Len(list) : list[k].severity # "critical"

\* `not any(issue.severity in [CRITICAL, ERROR] for issue in issues)`
NoneBlocking(list) ==
    \A k \in 1..Len(list) : list[k].severity \notin {"critical", "error"}

ValidationResult(valid, score, list) ==
    [is_valid |-> valid, quality_score |-> score, issues |-> list]

\* the end of validate_quiz_question and validate_exam_question
ScoredResult(list) ==
    ValidationResult(NoneBlocking(list), QualityScore(SeveritiesOf(list)), list)

QuizIssues(q) ==
    ValidateQuestionText(q)
    \o (IF q.multiple_choice THEN ValidateMultipleChoiceOptions(q) ELSE <<>>)
    \o ValidateExplanation(q)
    \o ValidateCorrectAnswer(q)
    \o ValidateAcademicQuality(q)

\* a plausible slip: the ends of the range are left out
MarksOutOfRange_Exclusive(q) == ~(1 < q.marks /\ q.marks < 20)

\* `if not 1 <= question.marks <= 20`
MarksOutOfRange(q) == ~(1 <= q.marks /\ q.marks <= 20)

\* ExamQuestion.__post_init__, as far as it bears on what the checks look
\* at: `if not 1 <= self.marks <= 20: raise ValueError`
ExamQuestionPostInit(q) == 1 <= q.marks /\ q.marks <= 20

\* ExamPaper.__post_init__ over questions that were constructed: a
\* question list that is not empty, total_marks of 1 or more, and the
\* questions' marks adding up to total_marks
ExamPaperPostInit(paper) ==
    /\ \A k \in 1..Len(paper.questions) : ExamQuestionPostInit(paper.questions[k])
    /\ paper.questions # <<>>
    /\ ~(paper.total_marks < 1)
    /\ SumMarks([k \in 1..Len(paper.questions) |-> paper.questions[k].marks])
          = paper.total_marks

ExamQuestionIssues(q) ==
    When(q.text_short, Issue("error", "Exam question text is too short"))
    \o When(MarksOutOfRange(q), Issue("error", "Invalid marks allocation"))
    \o When(q.answer_short, Issue("error", "Answer text is too short"))
    \o ValidateAcademicQuality(q)

\* the issues of question i of a paper, `Question i: ` put before each
RECURSIVE QuestionIssuesFrom(_, _)
QuestionIssuesFrom(qs, i) ==
    IF i > Len(qs) THEN <<>>
    ELSE LET own == ExamQuestionIssues(qs[i])
         IN  [k \in 1..Len(own) |-> [own[k] EXCEPT !.question = i]]
             \o QuestionIssuesFrom(qs, i + 1)

\* a plausible slip: the declared total is not compared with the sum
MarksIssues_Unchecked(paper) == <<>>

\* `if total_calculated_marks != exam_paper.total_marks`
MarksIssues(paper) ==
    When(SumMarks([k \in 1..Len(paper.questions) |-> paper.questions[k].marks])
            # paper.total_marks,
         Issue("error", "Marks mismatch"))

\* max(0.0, avg_question_quality - structure_penalty): the average of the
\* questions' scores less 0.1 for each ERROR or CRITICAL issue, kept as the
\* expression it is computed from
PaperScore(paper, list) ==
    [average_of |-> [k \in 1..Len(paper.questions) |->
                        QualityScore(SeveritiesOf(ExamQuestionIssues(paper.questions[k])))],
     penalties |-> Cardinality({k \in 1..Len(list) :
                                  list[k].severity \in {"error", "critical"}})]

\* a validate_* call is entered
ValidateEntry ==
    /\ val_pc = "entered"
    /\ val_subject \in QuizObjects \cup ExamQuestionObjects \cup PaperObjects
    /\ val_result = NoValidationResult

ValidateQuizQuestion ==
    /\ val_pc = "entered"
    /\ val_subject.kind = "quiz"
    /\ val_result' = ScoredResult(QuizIssues(val_subject))
    /\ val_pc' = "returned"
    /\ UNCHANGED <<val_subject, callVars, batchVars, schedVars, gateVars,
                   examVars, quizVars, needsVars, dispatchVars, scoreVars,
                   configVars, extractVars>>

ValidateExamQuestion ==
    /\ val_pc = "entered"
    /\ val_subject.kind = "exam_question"
    /\ val_result' = ScoredResult(ExamQuestionIssues(val_subject))
    /\ val_pc' = "returned"
    /\ UNCHANGED <<val_subject, callVars, batchVars, schedVars, gateVars,
                   examVars, quizVars, needsVars, dispatchVars, scoreVars,
                   configVars, extractVars>>

\* `if not exam_paper.questions`: one CRITICAL issue and the return
ValidateEmptyPaper ==
    /\ val_pc = "entered"
    /\ val_subject.kind = "exam_paper"
    /\ val_subject.questions = <<>>
    /\ val_result' = ValidationResult(FALSE, FloatZero,
                        <<Issue("critical", "Exam paper has no questions")>>)
    /\ val_pc' = "returned"
    /\ UNCHANGED <<val_subject, callVars, batchVars, schedVars, gateVars,
                   examVars, quizVars, needsVars, dispatchVars, scoreVars,
                   configVars, extractVars>>

\* the marks check, the questions one by one, the score, is_valid
ValidateExamPaper ==
    /\ val_pc = "entered"
    /\ val_subject.kind = "exam_paper"
    /\ val_subject.questions # <<>>
    /\ LET list == MarksIssues(val_subject)
                      \o QuestionIssuesFrom(val_subject.questions, 1)
       IN  val_result' = ValidationResult(NoneBlocking(list),
                                          PaperScore(val_subject, list), list)
    /\ val_pc' = "returned"
    /\ UNCHANGED <<val_subject, callVars, batchVars, schedVars, gateVars,
                   examVars, quizVars, needsVars, dispatchVars, scoreVars,
                   configVars, extractVars>>

InitValidate ==
    /\ ValidateEntry
    /\ ConfigIdle
    /\ ExtractIdle
    /\ GateIdle
    /\ ExamIdle
    /\ QuizIdle
    /\ NeedsIdle
    /\ DispatchIdle
    /\ ScoreIdle
    /\ max_retries = 0
    /\ CallEntry
    /\ Constructed(1, 1, 0)

NextValidate ==
    \/ ValidateQuizQuestion
    \/ ValidateExamQuestion
    \/ ValidateEmptyPaper
    \/ ValidateExamPaper

SpecValidate == InitValidate /\ [][NextValidate]_vars

\* C24: for every validation result (quiz question, exam question, exam
\* paper) is_valid is true exactly when the issue list holds no ERROR and no
\* CRITICAL issue, whatever the number of WARNING and INFO issues.
C24_ValidIffNoErrors ==
    val_pc = "returned" =>
       (val_result.is_valid <=>
           \A k \in 1..Len(val_result.issues) :
               /\ val_result.issues[k].severity # "error"
               /\ val_result.issues[k].severity # "critical")

\* a quiz question with four warnings and an info issue is valid
C24_Witness ==
    /\ val_pc = "returned"
    /\ val_subject.kind = "quiz"
    /\ val_result.is_valid
    /\ SeveritiesOf(val_result.issues)
          = <<"warning", "warning", "warning", "info", "warning">>

\* C26: validate_exam_paper on a paper without questions returns is_valid
\* false, a single CRITICAL issue and the score 0.0, nothing else having
\* been checked; on a paper whose questions' marks do not add up to
\* total_marks it reports the ERROR 'marks mismatch' and is_valid false.
C26_PaperStructure ==
    (val_pc = "returned" /\ val_subject.kind = "exam_paper") =>
       /\ val_subject.questions = <<>> =>
             /\ ~val_result.is_valid
             /\ Len(val_result.issues) = 1
             /\ val_result.issues[1].severity = "critical"
             /\ val_result.quality_score = FloatZero
       /\ (/\ val_subject.questions # <<>>
           /\ SumMarks([k \in 1..Len(val_subject.questions) |->
                           val_subject.questions[k].marks])
                 # val_subject.total_marks) =>
             /\ ~val_result.is_valid
             /\ \E k \in 1..Len(val_result.issues) :
                   /\ val_result.issues[k].severity = "error"
                   /\ val_result.issues[k].message = "Marks mismatch"

\* a paper whose only defect is the total: one question of 2 marks, a
\* declared total of 4
C26_Witness ==
    /\ val_pc = "returned"
    /\ val_subject.kind = "exam_paper"
    /\ Len(val_subject.questions) = 1
    /\ val_subject.questions[1].marks = 2
    /\ val_subject.total_marks = 4
    /\ val_result.issues = <<Issue("error", "Marks mismatch")>>
    /\ ~val_result.is_valid

\* ------------------------------------------------------------------------
\* GenerationConfig, BaseGenerator.validate_config and the construction of
\* an OllamaQuestionGenerator (by a caller, or by the scheduler's
\* _init_batch_generator from its configuration file)
\* ------------------------------------------------------------------------
\* GenerationConfig(): the defaults; temperature in tenths
DefaultGenerationConfig ==
    [model |-> "gemma3:4b", temperature |-> 7, max_tokens |-> 2000,
     timeout_seconds |-> timeout_seconds]

\* values a caller or a configuration file can give
Models == {"", "gemma3:4b"}
Temperatures == {-1, 0, 7, 20, 21}
TokenLimits == {99, 100, 2000}
Timeouts == {9, 10, timeout_seconds}

GenerationConfigs ==
    [model : Models, temperature : Temperatures, max_tokens : TokenLimits,
     timeout_seconds : Timeouts]

ConfigKeys == {"model", "temperature", "max_tokens", "timeout_seconds"}

\* the `generation` section of the configuration file: the keys it holds
\* and their values
GenerationSections ==
    [keys : SUBSET ConfigKeys, values : GenerationConfigs]

ConfigSources ==
    [path : {"scheduler"}, section : GenerationSections]
    \cup [path : {"caller"}, given : BOOLEAN, config : GenerationConfigs]

\* BaseGenerator.validate_config: TRUE where it returns True, FALSE where
\* it raises ValueError
ValidateConfig(config) ==
    /\ config.model # ""
    /\ 0 <= config.temperature /\ config.temperature <= 20
    /\ ~(config.max_tokens < 100)
    /\ ~(config.timeout_seconds < 10)

\* `for key, value in config_data['generation'].items(): setattr(...)`
Overlay(config, section) ==
    [key \in DOMAIN config |->
        IF key \in section.keys THEN section.values[key] ELSE config[key]]

ConfigEntry ==
    /\ config_pc = "entered"
    /\ config_source \in ConfigSources
    /\ config_source.path = "caller" =>
          (config_source.given \/ config_source.config = DefaultGenerationConfig)
    /\ config_source.path = "scheduler" =>
          \A key \in ConfigKeys \ config_source.section.keys :
              config_source.section.values[key] = DefaultGenerationConfig[key]
    /\ generation_config = NoConfig
    /\ generator_config = NoConfig

\* _init_batch_generator: GenerationConfig(), then the keys of the file
InitBatchGenerator ==
    /\ config_pc = "entered"
    /\ config_source.path = "scheduler"
    /\ generation_config' = Overlay(DefaultGenerationConfig, config_source.section)
    /\ config_pc' = "prepared"
    /\ UNCHANGED <<config_source, generator_config, callVars, batchVars,
                   schedVars, gateVars, examVars, quizVars, needsVars,
                   dispatchVars, scoreVars, valVars, extractVars>>

\* a caller builds a GenerationConfig and passes it, or passes None
CallerConfig ==
    /\ config_pc = "entered"
    /\ config_source.path = "caller"
    /\ generation_config' = config_source.config
    /\ config_pc' = "prepared"
    /\ UNCHANGED <<config_source, generator_config, callVars, batchVars,
                   schedVars, gateVars, examVars, quizVars, needsVars,
                   dispatchVars, scoreVars, valVars, extractVars>>

\* OllamaQuestionGenerator.__init__: `self.config = config or
\* GenerationConfig()`, BaseGenerator.__init__, the clients,
\* _verify_connections (which warns and never raises)
ConstructGenerator ==
    /\ config_pc = "prepared"
    /\ generator_config' =
          IF config_source.path = "caller" /\ ~config_source.given
          THEN DefaultGenerationConfig ELSE generation_config
    /\ config_pc' = "constructed"
    /\ UNCHANGED <<config_source, generation_config, callVars, batchVars,
                   schedVars, gateVars, examVars, quizVars, needsVars,
                   dispatchVars, scoreVars, valVars, extractVars>>

\* the generator is used: its methods read self.config and assign nothing
\* to it
GeneratorOperates ==
    /\ config_pc = "constructed"
    /\ config_pc' = "operating"
    /\ UNCHANGED <<config_source, generation_config, generator_config,
                   callVars, batchVars, schedVars, gateVars, examVars,
                   quizVars, needsVars, dispatchVars, scoreVars, valVars,
                   extractVars>>

InitConfig ==
    /\ ConfigEntry
    /\ ExtractIdle
    /\ ValidateIdle
    /\ GateIdle
    /\ ExamIdle
    /\ QuizIdle
    /\ NeedsIdle
    /\ DispatchIdle
    /\ ScoreIdle
    /\ max_retries = 0
    /\ CallEntry
    /\ Constructed(1, 1, 0)

NextConfig ==
    \/ InitBatchGenerator
    \/ CallerConfig
    \/ ConstructGenerator
    \/ GeneratorOperates

SpecConfig == InitConfig /\ [][NextConfig]_vars

\* C27: every generator that exists has a configuration with a non-empty
\* model, a temperature within [0.0, 2.0], max_tokens of at least 100 and
\* timeout_seconds of at least 10, whether the configuration was given
\* directly or loaded from the JSON configuration file.
C27_ConfigValidated ==
    config_pc \in {"constructed", "operating"} => ValidateConfig(generator_config)

\* a configuration file with "timeout_seconds": 9 in its generation section
\* and a generator that operates with it
C27_Witness ==
    /\ config_pc = "operating"
    /\ config_source.path = "scheduler"
    /\ generator_config = [DefaultGenerationConfig EXCEPT !.timeout_seconds = 9]

\* ------------------------------------------------------------------------
\* OllamaQuestionGenerator._extract_json_from_response and
\* _clean_json_content. A text is a sequence of characters. The texts are
\* written with the characters { } [ ] , : " space, the digits 1 and 2 and
\* the letters a and b, so the parts of the JSON grammar that need other
\* characters (escapes, signs, fractions, true, false, null) do not occur.
\* ------------------------------------------------------------------------
MaxMembers == 2          \* members of the embedded object

Quote == "\""
Whitespace == {" "}
Digits == {"1", "2"}

\* parsed values: what json.loads builds (a dict as its items in insertion
\* order, each key once)
JsonString(chars) == [t |-> "string", chars |-> chars]
JsonNumber(n) == [t |-> "number", n |-> n]
JsonArray(items) == [t |-> "array", items |-> items]
JsonObject(members) == [t |-> "object", members |-> members]

\* dict equality does not look at the order of the items
RECURSIVE JsonEqual(_, _)
JsonEqual(x, y) ==
    /\ x.t = y.t
    /\ CASE x.t = "array" ->
              /\ Len(x.items) = Len(y.items)
              /\ \A k \in 1..Len(x.items) : JsonEqual(x.items[k], y.items[k])
         [] x.t = "object" ->
              /\ {x.members[k].key : k \in 1..Len(x.members)}
                    = {y.members[k].key : k \in 1..Len(y.members)}
              /\ \A i \in 1..Len(x.members) : \A j \in 1..Len(y.members) :
                    x.members[i].key = y.members[j].key
                       => JsonEqual(x.members[i].val, y.members[j].val)
         [] x.t = "string" -> x.chars = y.chars
         [] x.t = "number" -> x.n = y.n

\* `d[key] = value`
DictSet(members, key, value) ==
    IF \E k \in 1..Len(members) : members[k].key = key
    THEN [k \in 1..Len(members) |->
             IF members[k].key = key THEN [key |-> key, val |-> value]
             ELSE members[k]]
    ELSE Append(members, [key |-> key, val |-> value])

\* the scanner: a value and the position after it, or JSONDecodeError
ParseFail == [ok |-> FALSE]
ParseOk(value, next) == [ok |-> TRUE, value |-> value, next |-> next]

RECURSIVE SkipWs(_, _)
SkipWs(s, i) ==
    IF i <= Len(s) /\ s[i] \in Whitespace THEN SkipWs(s, i + 1) ELSE i

\* the position of the first c at or after i, Len(s) + 1 if there is none
RECURSIVE IndexFrom(_, _, _)
IndexFrom(s, c, i) ==
    IF i > Len(s) \/ s[i] = c THEN i ELSE IndexFrom(s, c, i + 1)

\* a string starting at the quote at i: up to the next quote
ScanString(s, i) ==
    LET close == IndexFrom(s, Quote, i + 1)
    IN  IF close > Len(s) THEN ParseFail
        ELSE ParseOk(JsonString(SubSeq(s, i + 1, close - 1)), close + 1)

RECURSIVE DigitsEnd(_, _)
DigitsEnd(s, i) ==
    IF i <= Len(s) /\ s[i] \in Digits THEN DigitsEnd(s, i + 1) ELSE i

RECURSIVE Decimal(_)
Decimal(digits) ==
    IF digits = <<>> THEN 0
    ELSE 10 * Decimal(SubSeq(digits, 1, Len(digits) - 1))
         + (IF digits[Len(digits)] = "1" THEN 1 ELSE 2)

ScanNumber(s, i) ==
    LET end == DigitsEnd(s, i)
    IN  ParseOk(JsonNumber(Decimal(SubSeq(s, i, end - 1))), end)

RECURSIVE ScanValue(_, _)
RECURSIVE ScanMembers(_, _, _)
RECURSIVE ScanElements(_, _, _)

\* JSONObject after a key is due at i: key, ':', value, then '}' or ','
ScanMembers(s, i, members) ==
    IF i > Len(s) \/ s[i] # Quote THEN ParseFail
    ELSE LET key == ScanString(s, i)
         IN  IF ~key.ok THEN ParseFail
             ELSE LET colon == SkipWs(s, key.next)
                  IN  IF colon > Len(s) \/ s[colon] # ":" THEN ParseFail
                      ELSE LET value == ScanValue(s, SkipWs(s, colon + 1))
                           IN  IF ~value.ok THEN ParseFail
                               ELSE LET after == SkipWs(s, value.next)
                                        items == DictSet(members, key.value.chars, value.value)
                                    IN  IF after > Len(s) THEN ParseFail
                                        ELSE IF s[after] = "}"
                                        THEN ParseOk(JsonObject(items), after + 1)
                                        ELSE IF s[after] = ","
                                        THEN ScanMembers(s, SkipWs(s, after + 1), items)
                                        ELSE ParseFail

\* JSONArray after a value is due at i: value, then ']' or ','
ScanElements(s, i, items) ==
    LET value == ScanValue(s, i)
    IN  IF ~value.ok THEN ParseFail
        ELSE LET after == SkipWs(s, value.next)
             IN  IF after > Len(s) THEN ParseFail
                 ELSE IF s[after] = "]"
                 THEN ParseOk(JsonArray(Append(items, value.value)), after + 1)
                 ELSE IF s[after] = ","
                 THEN ScanElements(s, SkipWs(s, after + 1), Append(items, value.value))
                 ELSE ParseFail

\* scan_once
ScanValue(s, i) ==
    IF i > Len(s) THEN ParseFail
    ELSE IF s[i] = Quote THEN ScanString(s, i)
    ELSE IF s[i] = "{"
    THEN LET first == SkipWs(s, i + 1)
         IN  IF first <= Len(s) /\ s[first] = "}"
             THEN ParseOk(JsonObject(<<>>), first + 1)
             ELSE ScanMembers(s, first, <<>>)
    ELSE IF s[i] = "["
    THEN LET first == SkipWs(s, i + 1)
         IN  IF first <= Len(s) /\ s[first] = "]"
             THEN ParseOk(JsonArray(<<>>), first + 1)
             ELSE ScanElements(s, first, <<>>)
    ELSE IF s[i] \in Digits THEN ScanNumber(s, i)
    ELSE ParseFail

\* json.loads: one value with whitespace around it and nothing after it;
\* ok is FALSE where it raises JSONDecodeError
JsonLoads(s) ==
    LET parsed == ScanValue(s, SkipWs(s, 1))
    IN  IF parsed.ok /\ SkipWs(s, parsed.next) > Len(s)
        THEN [ok |-> TRUE, value |-> parsed.value]
        ELSE [ok |-> FALSE]

\* response.find(c), counting from 1: 0 where find gives -1
Find(s, c) ==
    LET i == IndexFrom(s, c, 1) IN IF i > Len(s) THEN 0 ELSE i

\* response.rfind(c) + 1: 0 where rfind gives -1
RECURSIVE RFindFrom(_, _, _)
RFindFrom(s, c, i) ==
    IF i = 0 \/ s[i] = c THEN i ELSE RFindFrom(s, c, i - 1)

RFind(s, c) == RFindFrom(s, c, Len(s))

\* re.sub(r',(\s*CLOSER)', r'\1', s): every comma with only whitespace
\* between it and a closer goes
RECURSIVE DropCommasBefore(_, _, _)
DropCommasBefore(s, closer, i) ==
    IF i > Len(s) THEN <<>>
    ELSE LET next == SkipWs(s, i + 1)
             matched == s[i] = "," /\ next <= Len(s) /\ s[next] = closer
         IN  (IF matched THEN <<>> ELSE <<s[i]>>)
             \o DropCommasBefore(s, closer, i + 1)

\* _clean_json_content
CleanJsonContent(content) ==
    LET braces == DropCommasBefore(content, "}", 1)
        brackets == DropCommasBefore(braces, "]", 1)
        last_brace == RFind(brackets, "}")
    IN  IF last_brace # 0 THEN SubSeq(brackets, 1, last_brace) ELSE brackets

\* --- the texts ----------------------------------------------------------
DigitChar(d) == IF d = 1 THEN "1" ELSE "2"

RECURSIVE NumberText(_)
NumberText(n) ==
    IF n < 10 THEN <<DigitChar(n)>>
    ELSE NumberText(n \div 10) \o <<DigitChar(n % 10)>>

Gap(spaced) == IF spaced THEN <<" ">> ELSE <<>>

\* a value written out; `spaced` puts a space after ':' and ','; `trailing`
\* says which non-empty containers get a comma before their closer: "none",
\* "outer" (the outermost one) or "all"
RECURSIVE Dumps(_, _, _, _)
RECURSIVE DumpsItems(_, _, _, _, _)
DumpsItems(v, k, spaced, trailing, outer) ==
    LET count == IF v.t = "object" THEN Len(v.members) ELSE Len(v.items)
    IN  IF k > count
        THEN IF count > 0 /\ (trailing = "all" \/ (trailing = "outer" /\ outer))
             THEN <<",">> \o Gap(spaced) ELSE <<>>
        ELSE (IF k > 1 THEN <<",">> \o Gap(spaced) ELSE <<>>)
             \o (IF v.t = "object"
                 THEN <<Quote>> \o v.members[k].key \o <<Quote, ":">> \o Gap(spaced)
                      \o Dumps(v.members[k].val, spaced, trailing, FALSE)
                 ELSE Dumps(v.items[k], spaced, trailing, FALSE))
             \o DumpsItems(v, k + 1, spaced, trailing, outer)

Dumps(v, spaced, trailing, outer) ==
    CASE v.t = "string" -> <<Quote>> \o v.chars \o <<Quote>>
      [] v.t = "number" -> NumberText(v.n)
      [] v.t = "array" ->
            <<"[">> \o DumpsItems(v, 1, spaced, trailing, outer) \o <<"]">>
      [] v.t = "object" ->
            <<"{">> \o DumpsItems(v, 1, spaced, trailing, outer) \o <<"}">>

Scalars ==
    {JsonNumber(1), JsonNumber(12), JsonString(<<"a">>),
     JsonString(<<"b", ",", "}">>)}

MemberValues ==
    Scalars \cup
    {JsonArray(<<>>), JsonArray(<<JsonNumber(1)>>),
     JsonArray(<<JsonNumber(2), JsonString(<<"a">>)>>),
     JsonObject(<<>>),
     JsonObject(<<[key |-> <<"b">>, val |-> JsonNumber(1)]>>)}

\* the k-th key: a, aa, aaa, ...
KeyOf(k) == [i \in 1..k |-> "a"]

EmbeddedObjects ==
    {JsonObject([k \in 1..n |-> [key |-> KeyOf(k), val |-> vals[k]]]) :
        n \in 0..MaxMembers, vals \in [1..MaxMembers -> MemberValues]}

\* what a model writes around the object
Prose ==
    {<<>>, <<"a", "b", ":", " ">>, <<"a", "{", "b", " ">>, <<" ", "a", "}", "b">>}

EmbeddedTexts ==
    [kind : {"embedded"}, before : Prose, object : EmbeddedObjects,
     after : Prose, spaced : BOOLEAN, trailing : {"none", "outer", "all"}]

\* texts that hold no object
OtherTexts ==
    {<<"a", "b">>,
     <<"a", "{", "b">>,
     <<"a", "}", "b">>,
     <<"}", "a", "{">>,
     <<"{", Quote, "a", Quote, ":", " ", "b", ",", "}">>,
     <<"{", Quote, "a", Quote, ":", "1", ",", ",", "}">>,
     <<"{", Quote, "a", Quote, " ", "1", "}">>,
     <<"{", "1", "}">>}

TextOf(e) ==
    IF e.kind = "embedded"
    THEN e.before \o Dumps(e.object, e.spaced, e.trailing, TRUE) \o e.after
    ELSE e.text

ExtractEntry ==
    /\ extract_pc = "entered"
    /\ embedded \in EmbeddedTexts \cup [kind : {"other"}, text : OtherTexts]
    /\ response = TextOf(embedded)
    /\ json_content = <<>>
    /\ extract_result = [found |-> FALSE]

\* find, rfind, `if start_idx == -1 or end_idx == 0: return None`, the slice
ExtractFind ==
    /\ extract_pc = "entered"
    /\ LET start_idx == Find(response, "{")
           end_idx == RFind(response, "}")
       IN  IF start_idx = 0 \/ end_idx = 0
           THEN /\ extract_pc' = "returned"
                /\ UNCHANGED json_content
           ELSE /\ extract_pc' = "strict"
                /\ json_content' = SubSeq(response, start_idx, end_idx)
    /\ UNCHANGED <<response, embedded, extract_result, callVars, batchVars,
                   schedVars, gateVars, examVars, quizVars, needsVars,
                   dispatchVars, scoreVars, valVars, configVars>>

\* `return json.loads(json_content)`, or JSONDecodeError and the handler
ExtractStrict ==
    /\ extract_pc = "strict"
    /\ LET parsed == JsonLoads(json_content)
       IN  IF parsed.ok
           THEN /\ extract_pc' = "returned"
                /\ extract_result' = [found |-> TRUE, value |-> parsed.value]
           ELSE /\ extract_pc' = "cleanup"
                /\ UNCHANGED extract_result
    /\ UNCHANGED <<response, embedded, json_content, callVars, batchVars,
                   schedVars, gateVars, examVars, quizVars, needsVars,
                   dispatchVars, scoreVars, valVars, configVars>>

\* `return json.loads(self._clean_json_content(json_content))`, or
\* JSONDecodeError leaving the handler
ExtractCleanup ==
    /\ extract_pc = "cleanup"
    /\ LET parsed == JsonLoads(CleanJsonContent(json_content))
       IN  IF parsed.ok
           THEN /\ extract_pc' = "returned"
                /\ extract_result' = [found |-> TRUE, value |-> parsed.value]
           ELSE /\ extract_pc' = "decode_error"
                /\ UNCHANGED extract_result
    /\ UNCHANGED <<response, embedded, json_content, callVars, batchVars,
                   schedVars, gateVars, examVars, quizVars, needsVars,
                   dispatchVars, scoreVars, valVars, configVars>>

\* a plausible slip: the outer try has no handler for the error
Caught_Nothing(error) == FALSE

\* `except json.JSONDecodeError` and `except Exception` of the outer try
Caught(error) == error \in {"JSONDecodeError", "Exception"}

\* the error of the second parse reaches the outer try: `return None`
ExtractHandle ==
    /\ extract_pc = "decode_error"
    /\ extract_pc' = IF Caught("JSONDecodeError") THEN "returned" ELSE "raised"
    /\ UNCHANGED <<response, embedded, json_content, extract_result, callVars,
                   batchVars, schedVars, gateVars, examVars, quizVars,
                   needsVars, dispatchVars, scoreVars, valVars, configVars>>

InitExtract ==
    /\ ExtractEntry
    /\ ConfigIdle
    /\ ValidateIdle
    /\ GateIdle
    /\ ExamIdle
    /\ QuizIdle
    /\ NeedsIdle
    /\ DispatchIdle
    /\ ScoreIdle
    /\ max_retries = 0
    /\ CallEntry
    /\ Constructed(1, 1, 0)

NextExtract ==
    \/ ExtractFind
    \/ ExtractStrict
    \/ ExtractCleanup
    \/ ExtractHandle

SpecExtract == InitExtract /\ [][NextExtract]_vars

\* the embedded object as it is written without trailing commas
PlainText(e) == Dumps(e.object, e.spaced, "none", TRUE)

\* C28: for every text made of prose, one well-formed JSON object and prose
\* again, _extract_json_from_response returns an object equal to the
\* embedded one: the candidate runs from the first '{' to the last '}' of
\* the text and parsing it gives the embedded object.
C28_RoundTrip ==
    (/\ extract_pc = "returned"
     /\ embedded.kind = "embedded"
     /\ embedded.trailing = "none") =>
       /\ json_content = SubSeq(response, Find(response, "{"), RFind(response, "}"))
       /\ extract_result.found
       /\ JsonEqual(extract_result.value, embedded.object)

\* the prose before the object holds a '{': nothing is returned
C28_Witness ==
    /\ extract_pc = "returned"
    /\ embedded.kind = "embedded"
    /\ embedded.trailing = "none"
    /\ embedded.before = <<"a", "{", "b", " ">>
    /\ embedded.after = <<>>
    /\ embedded.object = JsonObject(<<[key |-> <<"a">>, val |-> JsonNumber(1)]>>)
    /\ ~extract_result.found

\* C29: for a text whose candidate is a well-formed object but for trailing
\* commas before a closing '}' or ']', _extract_json_from_response returns
\* the object that parsing the text without those commas gives.
C29_TrailingCommas ==
    (/\ extract_pc = "returned"
     /\ embedded.kind = "embedded"
     /\ Find(embedded.before, "{") = 0
     /\ Find(embedded.after, "}") = 0
     /\ Dumps(embedded.object, embedded.spaced, embedded.trailing, TRUE)
           # PlainText(embedded)) =>
       /\ extract_result.found
       /\ JsonEqual(extract_result.value, JsonLoads(PlainText(embedded)).value)

\* {"a":"b,}",} comes back as {"a": "b}"}
C29_Witness ==
    /\ extract_pc = "returned"
    /\ response = <<"{", Quote, "a", Quote, ":", Quote, "b", ",", "}", Quote,
                    ",", "}">>
    /\ extract_result.found
    /\ extract_result.value
          = JsonObject(<<[key |-> <<"a">>, val |-> JsonString(<<"b", "}">>)]>>)

\* C30: _extract_json_from_response never raises, and returns no result
\* when the text holds no '{' or no '}', when the last '}' comes before the
\* first '{', and when the candidate cannot be parsed even after the
\* cleanup pass.
C30_NoResult ==
    /\ extract_pc # "raised"
    /\ extract_pc = "returned" =>
          LET start_idx == Find(response, "{")
              end_idx == RFind(response, "}")
              candidate == SubSeq(response, start_idx, end_idx)
          IN  (\/ start_idx = 0
               \/ end_idx = 0
               \/ end_idx < start_idx
               \/ /\ ~JsonLoads(candidate).ok
                  /\ ~JsonLoads(CleanJsonContent(candidate)).ok)
                => ~extract_result.found

\* {"a": b,} : a bare token as a value, unparseable after the cleanup too
C30_Witness ==
    /\ extract_pc = "returned"
    /\ response = <<"{", Quote, "a", Quote, ":", " ", "b", ",", "}">>
    /\ json_content = response
    /\ ~extract_result.found

\* the entries of a reply that cannot be made a QuizQuestion
FailsConstruction(item) ==
    \/ ~item.keys_present
    \/ item.text_length < 10
    \/ ~item.answer_present
    \/ item.explanation_length < 10
    \/ item.options < 2
    \/ item.points \notin 1..10
    \/ item.difficulty \notin 1..5

C32_BoundedRounds ==
    quiz_calls <= question_count

\* two rounds with nothing gained: the loop is where it started
C32_Witness ==
    /\ quiz_pc = "loop"
    /\ quiz_calls = 2
    /\ question_count = 1
    /\ remaining_questions = question_count
    /\ all_questions = <<>>

\* C33: the list returned by generate_quiz_questions(topic, count) never
\* holds more than count questions, and no batch contributes more than the
\* number of entries it asked for (at most 5), also when a reply holds more
\* entries than were asked for.
C33_AtMostCount ==
    /\ quiz_pc = "returned" => Len(quiz_return) <= question_count
    /\ \A i \in 2..Len(quiz_events) :
          (quiz_events[i].kind = "reply" /\ quiz_events[i - 1].kind = "call")
             => /\ quiz_events[i].n <= quiz_events[i - 1].n
                /\ quiz_events[i].n <= 5

\* one question asked for, five returned
C33_Witness ==
    /\ quiz_pc = "returned"
    /\ question_count = 1
    /\ quiz_calls = 1
    /\ Len(quiz_return) = 5

\* C34: no batch run that the scheduler loop starts on a day later than the
\* day of the last run is rejected at the daily-limit check: the counter of
\* the earlier day has been reset before the check is made.
C34_ResetBeforeFirstRun ==
    [][(/\ loop_pc = "pending"
        /\ batch_calls' = batch_calls + 1
        /\ last_run_date # NoDate
        /\ last_run_date < today)
       => batch_result' # LimitReachedResult]_vars

\* the first tick after midnight was answered by run_pending before the
\* rollover check of that iteration: it met the counter of the day before,
\* was rejected, and moved last_run_date to the new day, so that the
\* rollover check that follows finds nothing to reset
C34_Witness ==
    /\ loop_pc = "check"
    /\ today = 1
    /\ tick_calls = 2
    /\ last_tick_result = "completed"
    /\ batch_result = LimitReachedResult
    /\ last_run_date = today
    /\ ~RolloverDue
    /\ last_reset.by = "start"
    /\ daily_generation_count >= max_daily_generations

\* the questions persisted by the successful topics of positions 1..k
RECURSIVE PersistedBySuccessful(_)
PersistedBySuccessful(k) ==
    IF k = 0 THEN 0
    ELSE PersistedBySuccessful(k - 1)
           + (IF topic_outcome[dispatched[k]].kind = "success"
              THEN topic_outcome[dispatched[k]].question_count ELSE 0)

\* C35: in every BatchGenerationResult that run_batch_generation returns the
\* successful and the failed generations add up to total_topics_processed,
\* total_questions_generated is the sum of the questions persisted by the
\* successful topics, and it is the growth of daily_generation_count since
\* the run was entered; each awaited task grows the counter by what it adds
\* to the total.
C35_ResultAccounts ==
    /\ [](dispatch_pc = "returned" =>
            /\ batch_result.successful_generations + batch_result.failed_generations
                  = batch_result.total_topics_processed
            /\ batch_result.total_questions_generated
                  = PersistedBySuccessful(Len(dispatched))
            /\ batch_result.total_questions_generated
                  = daily_generation_count - entry_count)
    /\ [][dispatch_pc = "awaiting" /\ dispatch_pc' = "awaiting" =>
             daily_generation_count' - daily_generation_count
                = run'.total_questions_generated - run.total_questions_generated]_vars

\* two topics dispatched, one persisting two questions and one failing
C35_Witness ==
    /\ dispatch_pc = "returned"
    /\ completion_order = <<1, 2>>
    /\ batch_result.total_topics_processed = 2
    /\ batch_result.successful_generations = 1
    /\ batch_result.failed_generations = 1
    /\ batch_result.total_questions_generated = 2
    /\ daily_generation_count = entry_count + 2

\* ------------------------------------------------------------------------
\* run_manual_generation beside a scheduled tick
\* ------------------------------------------------------------------------
\* the max_topics argument of the manual call
ManualMaxTopics == 1

\* what the manual actions leave alone
notManual == <<max_concurrent_generations, max_daily_generations, task, run,
               batch_result, run_log, rotation_len, is_running,
               current_subject_index, generation_call, last_run_date,
               tick_start, last_tick_result, tick_calls, loop_pc, last_reset,
               today, callVars, genVars>>

\* run_manual_generation(None, max_topics) is called: is_running is neither
\* read nor written; run_priority_generation(max_topics) returns at the
\* daily-limit check
ManualLimitReached ==
    /\ manual.pc = "idle"
    /\ LimitReached
    /\ batch_calls' = batch_calls + 1
    /\ manual' = [NoManual EXCEPT !.pc = "returned", !.result = LimitReachedResult]
    /\ UNCHANGED <<daily_generation_count, sem_value, notManual>>

\* the needs analysis of the manual run returns an empty list
ManualNoNeeds ==
    /\ manual.pc = "idle"
    /\ ~LimitReached
    /\ batch_calls' = batch_calls + 1
    /\ manual' = [NoManual EXCEPT !.pc = "returned", !.result = NoNeedsResult]
    /\ UNCHANGED <<daily_generation_count, sem_value, notManual>>

\* the manual run passes the daily-limit check with a backlog: needs is cut
\* to max_topics, the task is created and the run suspends at `await task`
ManualDispatch(backlog) ==
    /\ manual.pc = "idle"
    /\ ~LimitReached
    /\ Min(Min(backlog, ManualMaxTopics), RemainingBudget) = 1
    /\ batch_calls' = batch_calls + 1
    /\ manual' = [NoManual EXCEPT !.pc = "awaiting", !.task = CreatedTask]
    /\ UNCHANGED <<daily_generation_count, sem_value, notManual>>

\* generate_for_topic of the manual run takes a permit of the one semaphore
ManualTaskAcquire ==
    /\ manual.task.pc = "pending"
    /\ SemaphoreFree
    /\ sem_value' = sem_value - 1
    /\ manual' = [manual EXCEPT !.task.pc = "generating"]
    /\ UNCHANGED <<daily_generation_count, batch_calls, notManual>>

\* the try block of the manual task ends with outcome o
ManualTaskFinish(o, n) ==
    /\ manual.task.pc = "generating"
    /\ o = "success" \/ n = 0
    /\ o = "success" => n >= 1
    /\ manual' = [manual EXCEPT !.task =
                     [pc |-> AfterBody(o), success |-> (o = "success"),
                      question_count |-> n, delays |-> 1, releases |-> 0]]
    /\ UNCHANGED <<daily_generation_count, sem_value, batch_calls, notManual>>

\* the delay is over and the permit handed back
ManualTaskRelease ==
    /\ manual.task.pc = "delay"
    /\ sem_value' = sem_value + 1
    /\ manual' = [manual EXCEPT !.task.pc = "done", !.task.releases = 1]
    /\ UNCHANGED <<daily_generation_count, batch_calls, notManual>>

\* `await task` returns: the counters and daily_generation_count are
\* updated, the result is built and run_manual_generation returns its summary
ManualReturn ==
    /\ manual.pc = "awaiting"
    /\ manual.task.pc = "done"
    /\ LET r == manual.task IN
         /\ daily_generation_count' =
                IF r.success THEN CounterAfter(r) ELSE daily_generation_count
         /\ manual' = [pc |-> "returned", task |-> CollectedTask,
                       result |-> IF r.success
                                  THEN BatchGenerationResult(1, 1, 0, r.question_count, "tasks")
                                  ELSE BatchGenerationResult(1, 0, 1, 0, "tasks")]
    /\ UNCHANGED <<sem_value, batch_calls, notManual>>

\* a scheduler without rotation, constructed with any limits
InitManual ==
    /\ \E conc \in 1..MaxConcurrent, daily \in 1..MaxDaily : Constructed(conc, daily, 0)
    /\ max_retries = 0
    /\ CallEntry
    /\ GenIdle

\* one manual call beside the scheduled ticks of one day
NextManual ==
    \/ TickSkipRunning
    \/ TickLimitReached
    \/ \E backlog \in 1..MaxTopics : TickDispatch(backlog)
    \/ \E t \in TaskIds : TaskAcquire(t)
    \/ \E t \in TaskIds, o \in Outcomes, n \in 0..MaxQuestions : TaskFinish(t, o, n)
    \/ \E t \in TaskIds : TaskRelease(t)
    \/ Aggregate
    \/ TickComplete
    \/ ManualLimitReached
    \/ ManualNoNeeds
    \/ \E backlog \in 1..MaxTopics : ManualDispatch(backlog)
    \/ ManualTaskAcquire
    \/ \E o \in Outcomes, n \in 0..MaxQuestions : ManualTaskFinish(o, n)
    \/ ManualTaskRelease
    \/ ManualReturn

SpecManual == InitManual /\ [][NextManual]_vars

\* C36: at most one batch run, scheduled or manual, is in progress on the
\* batch generator of a scheduler at any time.
C36_OneRunAtATime ==
    ~(run.pc = "awaiting" /\ manual.pc = "awaiting")

\* the manual run was started while the scheduled run was awaiting its
\* tasks; both passed the daily-limit check and a task of each is generating
C36_Witness ==
    /\ is_running
    /\ run.pc = "awaiting"
    /\ manual.pc = "awaiting"
    /\ \E t \in TaskIds : task[t].pc = "generating"
    /\ manual.task.pc = "generating"
    /\ daily_generation_count < max_daily_generations

\* C37: is_running is true exactly while a scheduled run is in progress;
\* every exit of run_scheduled_generation that follows the setting of the
\* flag (completed, failed, already completed today) leaves it false, and a
\* tick is answered 'already_running' only while a run is awaiting its tasks.
C37_FlagFollowsRun ==
    /\ [](is_running <=> run.pc = "awaiting")
    /\ [][(\/ tick_calls' = tick_calls + 1 /\ ~is_running /\ run'.pc = "idle"
           \/ run.pc = "awaiting" /\ run'.pc = "idle")
          => /\ ~is_running'
             /\ last_tick_result' \in {"completed", "failed",
                                       "skipped_already_completed_today"}]_vars
    /\ [][(tick_calls' = tick_calls + 1
             /\ last_tick_result' = "skipped_already_running")
          => run.pc = "awaiting"]_vars

\* a completed run, a new day, then a tick whose batch run raised: the flag
\* is down and no run is in progress
C37_Witness ==
    /\ tick_calls = 2
    /\ last_run_date = 0
    /\ today = 1
    /\ last_tick_result = "failed"
    /\ ~is_running
    /\ run.pc = "idle"

\* C38: once a scheduled run has completed with today's start date
\* (last_run_date = today), a tick returns 'skipped' /
\* 'already_completed_today': it does not call the batch generator, does not
\* advance current_subject_index and leaves the counter, the tasks and
\* last_run_date as they were.
C38_OncePerDay ==
    [][(tick_calls' = tick_calls + 1 /\ last_run_date = today)
       => /\ last_tick_result' = "skipped_already_completed_today"
          /\ ~is_running'
          /\ UNCHANGED <<batch_calls, current_subject_index, generation_call,
                         last_run_date, daily_generation_count, task, run,
                         batch_result>>]_vars

\* the loop called the job a second time on the day of a completed run that
\* persisted questions
C38_Witness ==
    /\ loop_pc = "check"
    /\ tick_calls = 2
    /\ batch_calls = 1
    /\ last_run_date = today
    /\ last_tick_result = "skipped_already_completed_today"
    /\ batch_result.total_questions_generated >= 1
    /\ ~is_running

\* C39: a tick whose batch run raises returns 'failed' with the flag down;
\* last_run_date keeps its value, so the tick does not count as today's
\* run, while current_subject_index has moved on to the next subject of
\* the rotation.
C39_FailedTick ==
    [][(/\ tick_calls' = tick_calls + 1
        /\ batch_calls' = batch_calls + 1
        /\ run'.pc = "idle"
        /\ last_tick_result' = "failed")
       => /\ last_run_date' = last_run_date
          /\ ~CompletedToday'
          /\ ~is_running'
          /\ current_subject_index' = NextSubjectIndex
          /\ rotation_len > 1 => current_subject_index' # current_subject_index]_vars

\* the first tick of a scheduler with the rotation failed on 'Mathematics':
\* no run is recorded and the index points at the next subject
C39_Witness ==
    /\ tick_calls = 1
    /\ last_tick_result = "failed"
    /\ rotation_len = 2
    /\ generation_call = SubjectGeneration("Mathematics")
    /\ current_subject_index = 1
    /\ last_run_date = NoDate
    /\ ~is_running

\* the messages of the issues of a validation result
Messages(result) == {result.issues[k].message : k \in 1..Len(result.issues)}

====
